---- MODULE Spec2Model ----
\* Verification model of ipam4cloud: the prefix store (models.py), the
\* allocator, the AWS VPC subnet reconciler (aws_vpc_sync.py) and the
\* idempotency layer (idempotency_service.py).
EXTENDS Integers, FiniteSets, Sequences, TLC

VARIABLES
    vrfs,       \* rows of table vrf (their vrf_id)
    isDefault,  \* the vrf_ids of the rows of table vrf whose is_default is true
    vpcs,       \* rows of table vpc (their vpc_id)
    cycle,      \* the reconciler's run_sync_cycle: where it is in its loop
    prefixes,   \* rows of table prefix
    assocs,     \* rows of table vpc_prefix_association
    idem,       \* rows of table idempotency_record, keyed by request_id
    execs,      \* the runs of processor_func: request id, success, response
    req,        \* the in-flight create/allocate request of each worker
    ret,        \* what the last process_request call was given and returned
    lastOp      \* the operation that made the last step, and its outcome

vars == <<vrfs, isDefault, vpcs, cycle, prefixes, assocs, idem, execs, req, ret, lastOp>>

----------------------------------------------------------------------------
\* Bounds of the model

\* address width of both IP families in the model (32 and 128 in ipaddress)
AddrBits == 2
\* rows the prefix table may hold
MaxPrefixes == 3
\* rows the prefix table may hold while two writers race
MaxConcPrefixes == 3
\* rows the association table may hold
MaxAssocs == 2
\* highest indentation_level a re-parenting may write
MaxLevel == 2
\* runs of processor_func the log of executions may hold
MaxExecs == 2

----------------------------------------------------------------------------
\* CIDR engine: the operations of Python's ipaddress the code relies on.
\* A network is <<version, network address, prefix length>>.

RECURSIVE Pow2(_)
Pow2(n) == IF n <= 0 THEN 1 ELSE 2 * Pow2(n - 1)

Ver(c) == c[1]
NetAddr(c) == c[2]
PrefixLen(c) == c[3]
NumAddrs(c) == Pow2(AddrBits - PrefixLen(c))
Broadcast(c) == NetAddr(c) + NumAddrs(c) - 1

\* _BaseNetwork.__contains__: an address of another version is never inside
AddrIn(v, a, c) == v = Ver(c) /\ NetAddr(c) <= a /\ a <= Broadcast(c)

\* _BaseNetwork.overlaps
Overlaps(a, b) ==
    \/ AddrIn(Ver(b), NetAddr(b), a)
    \/ AddrIn(Ver(b), Broadcast(b), a)
    \/ AddrIn(Ver(a), NetAddr(a), b)
    \/ AddrIn(Ver(a), Broadcast(a), b)

\* _BaseNetwork.subnet_of: TypeError across versions, otherwise inclusion
\* (a network is a subnet of itself)
SubnetOf(a, b) ==
    IF Ver(a) # Ver(b) THEN "TypeError"
    ELSE IF NetAddr(b) <= NetAddr(a) /\ Broadcast(b) >= Broadcast(a)
         THEN "yes" ELSE "no"

\* containment as the data model states it: same family, inside, not equal
StrictlyInside(a, b) == SubnetOf(a, b) = "yes" /\ a # b

\* subnets(prefixlen_diff=n) in place of subnets(new_prefix=n)
SubnetsOfPrefixlenDiff(c, n) ==
    IF n < 0 \/ PrefixLen(c) + n > AddrBits THEN [err |-> TRUE, subs |-> <<>>]
    ELSE [err |-> FALSE,
          subs |-> [ i \in 1..Pow2(n) |->
                       <<Ver(c), NetAddr(c) + (i - 1) * Pow2(AddrBits - PrefixLen(c) - n),
                         PrefixLen(c) + n>> ]]

\* _BaseNetwork.subnets(new_prefix=n): the subnets in address order;
\* ValueError when n is shorter than the prefix or longer than the family
SubnetsOf(c, n) ==
    IF n < PrefixLen(c) \/ n > AddrBits THEN [err |-> TRUE, subs |-> <<>>]
    ELSE [err |-> FALSE,
          subs |-> [ i \in 1..Pow2(n - PrefixLen(c)) |->
                       <<Ver(c), NetAddr(c) + (i - 1) * Pow2(AddrBits - n), n>> ]]

----------------------------------------------------------------------------
\* Identifiers and rows

NULL == "NULL"
PROD_VRF == "prod-vrf"
PUBLIC_VRF == "public-vrf"

\* format_cidr_for_id: the dashed rendering of a network; IPv4 gives the
\* four octets and the length, IPv6 the eight exploded groups and the length,
\* so two networks never share a rendering
FormatCidrForId(c) ==
    IF Ver(c) = 4 THEN <<NetAddr(c), PrefixLen(c)>>
    ELSE <<NetAddr(c) \div 2, NetAddr(c) % 2, PrefixLen(c)>>

NoId == [kind |-> "none", owner |-> "-", cidr |-> <<>>]
\* f"manual-{vrf_id}-{cidr_formatted}"
ManualId(vrf, c) == [kind |-> "manual", owner |-> vrf, cidr |-> FormatCidrForId(c)]
\* f"{vpc_id}-subnet-{cidr_formatted}"
SubnetId(vpc, c) == [kind |-> "subnet", owner |-> vpc, cidr |-> FormatCidrForId(c)]
\* f"public-ip-{cidr_formatted}"
PublicIpId(c) == [kind |-> "public-ip", owner |-> "-", cidr |-> FormatCidrForId(c)]

\* a row of table prefix (class Prefix)
PrefixRow(id, vrf, c, parent, source, routable, flag, vpc, tags) ==
    [id |-> id, vrf |-> vrf, cidr |-> c, parent |-> parent, source |-> source,
     routable |-> routable, flag |-> flag, vpc |-> vpc, tags |-> tags,
     indentation_level |-> 0]

\* tag maps are sets of <<key, value>> with one value per key
TagKeys(tags) == { t[1] : t \in tags }
HasTag(tags, k) == k \in TagKeys(tags)
TagPut(tags, k, v) == { t \in tags : t[1] # k } \cup { <<k, v>> }
\* a del that removes nothing
TagPopNothing(tags, k) == tags
TagPop(tags, k) == { t \in tags : t[1] # k }
\* datetime.utcnow().isoformat(): the model keeps that a time was written
TS == "ts"

ById(P, id) == { p \in P : p.id = id }

----------------------------------------------------------------------------
\* The store's constraints, as the tables declare them

\* the AWS VPCs of the registry (rows of table vpc, provider = 'aws')
Vpcs == {"v1", "v2"}

\* VRF name of a VPC: f"{provider}_{account or 'unknown'}_{provider_vpc_id}"
VpcVrfName(vpc) == IF vpc = "v1" THEN "aws_acct_v1" ELSE "aws_acct_v2"

\* InsertPrefix without UNIQUE(vrf_id, cidr)
InsertPrefixNoUnique(P, V, r) ==
    IF \/ \E p \in P : p.id = r.id
       \/ r.vrf \notin V
       \/ r.parent # NoId /\ ById(P, r.parent) = {}
       \/ r.vpc # NULL /\ r.vpc \notin vpcs
       \/ ~ ((r.source = "vpc" /\ r.vpc # NULL) \/ (r.source = "manual" /\ r.vpc = NULL))
    THEN "IntegrityError" ELSE "ok"

\* indentation_level as the database materializes it when row r is written:
\* the parent's level plus one, 0 for a row without parent
IndentationLevel(P, r) ==
    IF r.parent = NoId \/ ById(P, r.parent) = {} THEN 0
    ELSE (CHOOSE q \in ById(P, r.parent) : TRUE).indentation_level + 1

\* row r as an INSERT or UPDATE on table P stores it
Written(P, r) == [r EXCEPT !.indentation_level = IndentationLevel(P, r)]

\* session.add(row); session.commit() on table prefix: the primary key,
\* UNIQUE(vrf_id, cidr), the foreign keys to vrf, prefix and vpc, and the
\* check that source = 'vpc' exactly when vpc_id is set
InsertPrefix(P, V, r) ==
    IF \/ \E p \in P : p.id = r.id
       \/ \E p \in P : p.vrf = r.vrf /\ p.cidr = r.cidr
       \/ r.vrf \notin V
       \/ r.parent # NoId /\ ById(P, r.parent) = {}
       \/ r.vpc # NULL /\ r.vpc \notin vpcs
       \/ ~ ((r.source = "vpc" /\ r.vpc # NULL) \/ (r.source = "manual" /\ r.vpc = NULL))
    THEN "IntegrityError" ELSE "ok"

\* the commit of an UPDATE that turns row old into row new
UpdatePrefix(P, V, old, new) ==
    IF \/ \E p \in P \ {old} : p.vrf = new.vrf /\ p.cidr = new.cidr
       \/ new.vrf \notin V
       \/ new.parent # NoId /\ ById(P, new.parent) = {}
    THEN "IntegrityError" ELSE "ok"

----------------------------------------------------------------------------
\* PrefixManager

\* the sibling set of validate_prefix_conflicts
Siblings(P, vrf, parent) ==
    IF parent # NoId
    THEN { p \in P : p.vrf = vrf /\ p.parent = parent }
    ELSE { p \in P : p.vrf = vrf /\ p.parent = NoId }

\* validate_prefix_conflicts: the exact duplicate, then the sibling overlap;
\* the parent row itself is never read
ValidatePrefixConflicts(P, vrf, c, parent) ==
    IF \E p \in P : p.vrf = vrf /\ p.cidr = c THEN "DuplicateCIDR"
    ELSE IF \E s \in Siblings(P, vrf, parent) : Overlaps(c, s.cidr)
         THEN "SiblingOverlap"
         ELSE "ok"

\* the row create_manual_prefix builds
ManualRow(vrf, c, parent, tags, routable, flag) ==
    PrefixRow(ManualId(vrf, c), vrf, c, parent, "manual", routable, flag, NULL, tags)

\* what lastOp keeps of a step: the handler, its outcome and, for the
\* reconciler, the VPC and the CIDRs the cloud reported
Op(name, outcome) == [op |-> name, outcome |-> outcome, vpc |-> NULL, cloud |-> {}]

\* create_manual_prefix with validation and insert in one step
CreateManualPrefix(vrf, c, parent, tags, routable, flag) ==
    LET v == ValidatePrefixConflicts(prefixes, vrf, c, parent)
        r == ManualRow(vrf, c, parent, tags, routable, flag)
        o == IF v # "ok" THEN v ELSE InsertPrefix(prefixes, vrfs, r)
    IN /\ o = "ok" => Cardinality(prefixes) < MaxPrefixes
       /\ prefixes' = IF o = "ok" THEN prefixes \cup {Written(prefixes, r)} ELSE prefixes
       /\ lastOp' = Op("create_manual_prefix", o)
       /\ UNCHANGED <<cycle, vrfs, isDefault, vpcs, assocs, idem, execs, req, ret>>

\* create_public_ip_prefix: no validation, straight to the insert
CreatePublicIpPrefix(vpc, c, tags) ==
    LET r == PrefixRow(SubnetId(vpc, c), PUBLIC_VRF, c, NoId, "vpc", TRUE, TRUE, vpc, tags)
        o == InsertPrefix(prefixes, vrfs, r)
    IN /\ o = "ok" => Cardinality(prefixes) < MaxPrefixes
       /\ prefixes' = IF o = "ok" THEN prefixes \cup {Written(prefixes, r)} ELSE prefixes
       /\ lastOp' = Op("create_public_ip_prefix", o)
       /\ UNCHANGED <<cycle, vrfs, isDefault, vpcs, assocs, idem, execs, req, ret>>

\* create_standalone_public_ip_prefix: no validation, straight to the insert
CreateStandalonePublicIpPrefix(c, tags) ==
    LET r == PrefixRow(PublicIpId(c), PUBLIC_VRF, c, NoId, "manual", TRUE, FALSE, NULL, tags)
        o == InsertPrefix(prefixes, vrfs, r)
    IN /\ o = "ok" => Cardinality(prefixes) < MaxPrefixes
       /\ prefixes' = IF o = "ok" THEN prefixes \cup {Written(prefixes, r)} ELSE prefixes
       /\ lastOp' = Op("create_standalone_public_ip_prefix", o)
       /\ UNCHANGED <<cycle, vrfs, isDefault, vpcs, assocs, idem, execs, req, ret>>

\* update_manual_prefix(prefix_id, **{key: value}): refuses a missing row and
\* a row of source vpc, then sets the attribute and commits
UpdateManualPrefix(id, key, value) ==
    LET found == ById(prefixes, id)
        old == CHOOSE p \in found : TRUE
        new == [old EXCEPT ![key] = value]
        o == IF found = {} THEN "NotFound"
             ELSE IF old.source # "manual" THEN "CannotMutateVPCSourced"
             ELSE UpdatePrefix(prefixes, vrfs, old, new)
    IN /\ prefixes' = IF o = "ok" THEN (prefixes \ {old}) \cup {Written(prefixes, new)}
                      ELSE prefixes
       /\ lastOp' = Op("update_manual_prefix", o)
       /\ UNCHANGED <<cycle, vrfs, isDefault, vpcs, assocs, idem, execs, req, ret>>

\* delete_manual_prefix without the count of the children
ValidateDeleteNoChildren(P, A, id) ==
    LET found == ById(P, id)
        old == CHOOSE p \in found : TRUE
    IN IF found = {} THEN "NotFound"
       ELSE IF old.source # "manual" THEN "CannotMutateVPCSourced"
       ELSE IF \E a \in A : a.parent = id THEN "IntegrityError"
       ELSE "ok"

\* what delete_manual_prefix decides: a missing row, a row of source vpc and
\* a row with children are refused; the association's foreign key refuses
\* the commit for a referenced row
ValidateDelete(P, A, id) ==
    LET found == ById(P, id)
        old == CHOOSE p \in found : TRUE
    IN IF found = {} THEN "NotFound"
       ELSE IF old.source # "manual" THEN "CannotMutateVPCSourced"
       ELSE IF \E p \in P : p.parent = id THEN "CannotDeleteWithChildren"
       ELSE IF \E a \in A : a.parent = id THEN "IntegrityError"
       ELSE "ok"

\* delete_manual_prefix: refuses a missing row, a row of source vpc and a row
\* with children; the association's foreign key refuses a referenced row
DeleteManualPrefix(id) ==
    LET found == ById(prefixes, id)
        old == CHOOSE p \in found : TRUE
        o == ValidateDelete(prefixes, assocs, id)
    IN /\ prefixes' = IF o = "ok" THEN prefixes \ {old} ELSE prefixes
       /\ lastOp' = Op("delete_manual_prefix", o)
       /\ UNCHANGED <<cycle, vrfs, isDefault, vpcs, assocs, idem, execs, req, ret>>

\* is_auto_created_vrf: the provider_account_vpcid names of the per-VPC VRFs
IsAutoCreatedVrf(v) == v \in { VpcVrfName(x) : x \in Vpcs }

\* create_vrf that leaves the other defaults set
DefaultsAfterCreateKeepOthers(D, v, is_default) == IF is_default THEN D \cup {v} ELSE D

\* the default VRFs after create_vrf inserted v: "if setting as default,
\* unset other defaults"
DefaultsAfterCreate(D, v, is_default) == IF is_default THEN {v} ELSE D

\* create_vrf: refuses an existing vrf_id, else clears the other defaults
\* when the new row is the default and inserts it, in one transaction
CreateVrfRow(v, is_default) ==
    /\ vrfs' = vrfs \cup {v}
    /\ isDefault' = IF v \in vrfs THEN isDefault
                    ELSE DefaultsAfterCreate(isDefault, v, is_default)
    /\ lastOp' = Op("create_vrf", IF v \in vrfs THEN "exists" ELSE "ok")
    /\ UNCHANGED <<cycle, vpcs, prefixes, assocs, idem, execs, req, ret>>

\* create_vrf with the is_default its request body has by default
CreateVrf(v) == CreateVrfRow(v, FALSE)

\* update_vrf: 404, 403 for an auto-created VRF, else is_default = True
\* clears the other rows, and a given is_default is stored; the Optional[bool]
\* of the body is {} for None and {b} for b
UpdateVrf(v, is_default) ==
    LET o == IF v \notin vrfs THEN "NotFound"
             ELSE IF IsAutoCreatedVrf(v) THEN "Forbidden" ELSE "ok"
    IN /\ isDefault' = IF o # "ok" \/ is_default = {} THEN isDefault
                       ELSE IF is_default = {TRUE} THEN {v} ELSE isDefault \ {v}
       /\ lastOp' = [Op("update_vrf", o) EXCEPT !.vpc = v]
       /\ UNCHANGED <<cycle, vrfs, vpcs, prefixes, assocs, idem, execs, req, ret>>

\* the checks of delete_vrf: 404, 403 for an auto-created VRF, 400 while a
\* prefix has that vrf_id (as the RESTRICT foreign key of prefix.vrf_id
\* says), 400 for the default VRF when it is the only row
ValidateDeleteVrf(V, D, P, v) ==
    IF v \notin V THEN "NotFound"
    ELSE IF IsAutoCreatedVrf(v) THEN "Forbidden"
    ELSE IF \E p \in P : p.vrf = v THEN "InUse"
    ELSE IF v \in D /\ Cardinality(V) = 1 THEN "OnlyVrf"
    ELSE "ok"

\* delete_vrf
DeleteVrf(v) ==
    LET o == ValidateDeleteVrf(vrfs, isDefault, prefixes, v)
    IN /\ vrfs' = IF o = "ok" THEN vrfs \ {v} ELSE vrfs
       /\ isDefault' = IF o = "ok" THEN isDefault \ {v} ELSE isDefault
       /\ lastOp' = [Op("delete_vrf", o) EXCEPT !.vpc = v]
       /\ UNCHANGED <<cycle, vpcs, prefixes, assocs, idem, execs, req, ret>>

\* delete_vpc without the count of the associations of the VPC
ValidateDeleteVpcNoAssociations(W, P, A, vpc) ==
    IF vpc \notin W THEN "NotFound"
    ELSE IF \E p \in P : p.vpc = vpc THEN "InUse"
    ELSE "ok"

\* the checks of delete_vpc: 404, 400 while a prefix has that vpc_id, 400
\* while an association has it
ValidateDeleteVpc(W, P, A, vpc) ==
    IF vpc \notin W THEN "NotFound"
    ELSE IF \E p \in P : p.vpc = vpc THEN "InUse"
    ELSE IF \E a \in A : a.vpc = vpc THEN "InUse"
    ELSE "ok"

\* delete_vpc
DeleteVpc(vpc) ==
    LET o == ValidateDeleteVpc(vpcs, prefixes, assocs, vpc)
    IN /\ vpcs' = IF o = "ok" THEN vpcs \ {vpc} ELSE vpcs
       /\ lastOp' = [Op("delete_vpc", o) EXCEPT !.vpc = vpc]
       /\ UNCHANGED <<cycle, vrfs, isDefault, prefixes, assocs, idem, execs, req, ret>>

----------------------------------------------------------------------------
\* Allocator

\* calculate_available_subnets: above this many candidates the scan is lazy
MaxSubnetsToGenerate == 100
\* and stops after this many free candidates
MaxAvailableToFind == 16

\* _tags_match_strictly that compares the keys only
TagsMatchKeysOnly(prefixTags, requiredTags) == TagKeys(requiredTags) \subseteq TagKeys(prefixTags)

\* _tags_match_strictly: every required key is present with an equal value
TagsMatchStrictly(prefixTags, requiredTags) == requiredTags \subseteq prefixTags

\* find_matching_parent_prefixes: the manual prefixes of the VRF (only the
\* given one when parent_prefix_id is set) whose tags match; query.all()
\* promises no order, so the result is a set
FindMatchingParentPrefixes(P, vrf, tags, parent) ==
    { p \in P : /\ p.vrf = vrf
                /\ p.source = "manual"
                /\ (parent # NoId => p.id = parent)
                /\ TagsMatchStrictly(p.tags, tags) }

\* calculate_available_subnets that lists the free subnets from the top
CalculateAvailableSubnetsHighestFirst(P, parentRow, size) ==
    LET gen == SubnetsOf(parentRow.cidr, size)
        existing == { ch.cidr : ch \in { p \in P : p.parent = parentRow.id } }
        free == SelectSeq(gen.subs, LAMBDA s : \A e \in existing : ~ Overlaps(s, e))
    IN IF gen.err THEN [err |-> TRUE, subs |-> <<>>]
       ELSE [err |-> FALSE, subs |-> [ i \in 1..Len(free) |-> free[Len(free) + 1 - i] ]]

\* calculate_available_subnets: the subnets of the parent of the given
\* length that overlap no row whose parent_prefix_id is the parent, in
\* address order
CalculateAvailableSubnets(P, parentRow, size) ==
    LET gen == SubnetsOf(parentRow.cidr, size)
        existing == { ch.cidr : ch \in { p \in P : p.parent = parentRow.id } }
        free == SelectSeq(gen.subs, LAMBDA s : \A e \in existing : ~ Overlaps(s, e))
    IN IF gen.err THEN [err |-> TRUE, subs |-> <<>>]
       ELSE IF Pow2(size - PrefixLen(parentRow.cidr)) > MaxSubnetsToGenerate
            THEN [err |-> FALSE,
                  subs |-> SubSeq(free, 1, IF Len(free) < MaxAvailableToFind
                                           THEN Len(free) ELSE MaxAvailableToFind)]
            ELSE [err |-> FALSE, subs |-> free]

\* the tags allocate_subnet gives the new prefix
AllocationTags(tags, parentId) ==
    TagPut(TagPut(tags, "allocated_from", parentId), "allocation_timestamp", TS)

\* one pass of allocate_subnet's loop body for parent q: "continue" goes on
\* to the next parent, anything else ends the call
TryParent(P, V, q, vrf, size, tags, routable, flag) ==
    LET avail == CalculateAvailableSubnets(P, q, size)
        c == avail.subs[1]
        r == Written(P, ManualRow(vrf, c, q.id, AllocationTags(tags, q.id), routable, flag))
        v == ValidatePrefixConflicts(P, vrf, c, q.id)
    IN IF routable /\ ~ q.routable THEN [outcome |-> "continue"]
       ELSE IF avail.err THEN [outcome |-> "continue"]
       ELSE IF avail.subs = <<>> THEN [outcome |-> "continue"]
       ELSE IF v # "ok" THEN [outcome |-> "continue"]
       ELSE IF InsertPrefix(P, V, r) # "ok" THEN [outcome |-> "IntegrityError"]
       ELSE [outcome |-> "ok", row |-> r,
             result |-> [allocated_cidr |-> c, parent_prefix_id |-> q.id, prefix_id |-> r.id]]

\* allocate_subnet's loop over the parents it found, in any order the
\* query may return them: the set of results the call can have
RECURSIVE AllocateFrom(_, _, _, _, _, _, _, _)
AllocateFrom(P, V, remaining, vrf, size, tags, routable, flag) ==
    IF remaining = {} THEN { [outcome |-> "NoSpaceAvailable"] }
    ELSE UNION { LET t == TryParent(P, V, q, vrf, size, tags, routable, flag)
                 IN IF t.outcome = "continue"
                    THEN AllocateFrom(P, V, remaining \ {q}, vrf, size, tags, routable, flag)
                    ELSE {t}
                 : q \in remaining }

\* what lastOp keeps of an allocate_subnet call: the requested length and
\* the dict the call returned
NoResult == [allocated_cidr |-> <<>>, parent_prefix_id |-> NoId, prefix_id |-> NoId]
AllocOp(res, size) ==
    [op |-> "allocate_subnet", outcome |-> res.outcome, vpc |-> NULL, cloud |-> {},
     size |-> size, result |-> IF res.outcome = "ok" THEN res.result ELSE NoResult]

\* every result allocate_subnet can have in store state P, V: one for each
\* order in which query.all() may hand over the matching parents
AllocationResults(P, V, vrf, size, tags, routable, parent, flag) ==
    LET found == FindMatchingParentPrefixes(P, vrf, tags, parent)
    IN IF found = {} THEN { [outcome |-> "NoParent"] }
       ELSE AllocateFrom(P, V, found, vrf, size, tags, routable, flag)

\* what lastOp keeps of an allocate_subnet call whose arguments are looked at
AllocRequestOp(res, size, vrf, tags, routable, parent) ==
    [op |-> "allocate_subnet", outcome |-> res.outcome, vpc |-> NULL, cloud |-> {},
     size |-> size, result |-> IF res.outcome = "ok" THEN res.result ELSE NoResult,
     vrf_id |-> vrf, tags |-> tags, routable |-> routable, parent_prefix_id |-> parent]

\* allocate_subnet as one step; lastOp keeps the arguments when keepArgs
AllocateSubnetAs(vrf, size, tags, routable, parent, flag, keepArgs) ==
    \E res \in AllocationResults(prefixes, vrfs, vrf, size, tags, routable, parent, flag) :
         /\ res.outcome = "ok" => Cardinality(prefixes) < MaxPrefixes
         /\ prefixes' = IF res.outcome = "ok" THEN prefixes \cup {res.row} ELSE prefixes
         /\ lastOp' = IF keepArgs
                       THEN AllocRequestOp(res, size, vrf, tags, routable, parent)
                       ELSE AllocOp(res, size)
         /\ UNCHANGED <<cycle, vrfs, isDefault, vpcs, assocs, idem, execs, req, ret>>

AllocateSubnet(vrf, size, tags, routable, parent, flag) ==
    AllocateSubnetAs(vrf, size, tags, routable, parent, flag, FALSE)

\* allocate_subnet with its arguments kept in lastOp
AllocateSubnetRequest(vrf, size, tags, routable, parent) ==
    AllocateSubnetAs(vrf, size, tags, routable, parent, FALSE, TRUE)

----------------------------------------------------------------------------
\* VPC associations (backend/main.py)

AssocRow(vpc, c, routable, parent) ==
    [vpc |-> vpc, cidr |-> c, routable |-> routable, parent |-> parent]

\* create_vpc_association's rules without rule 1 (source vpc)
ValidateAssociationNoSourceRule(P, A, vpc, c, parent) ==
    LET found == ById(P, parent)
        pp == CHOOSE p \in found : TRUE
    IN IF found = {} THEN "NotFound"
       ELSE IF \E a \in A : a.parent = parent /\ a.vpc = vpc
            THEN "AssociationPolicyViolation"
       ELSE IF pp.routable /\ \E a \in A : a.parent = parent
            THEN "AssociationPolicyViolation"
       ELSE IF vpc \notin vpcs THEN "IntegrityError"
       ELSE IF \E a \in A : a.vpc = vpc /\ a.cidr = c THEN "IntegrityError"
       ELSE "ok"

\* what create_vpc_association decides before it writes: the 404, rule 1,
\* the duplicate check, rule 2, then UNIQUE(vpc_id, vpc_prefix_cidr) of the
\* insert
ValidateAssociation(P, A, vpc, c, parent) ==
    LET found == ById(P, parent)
        pp == CHOOSE p \in found : TRUE
    IN IF found = {} THEN "NotFound"
       ELSE IF pp.source = "vpc" THEN "AssociationPolicyViolation"
       ELSE IF \E a \in A : a.parent = parent /\ a.vpc = vpc
            THEN "AssociationPolicyViolation"
       ELSE IF pp.routable /\ \E a \in A : a.parent = parent
            THEN "AssociationPolicyViolation"
       ELSE IF vpc \notin vpcs THEN "IntegrityError"
       ELSE IF \E a \in A : a.vpc = vpc /\ a.cidr = c THEN "IntegrityError"
       ELSE "ok"

\* what lastOp keeps of a create_vpc_association call
AssocOp(outcome, vpc, parent) ==
    [op |-> "create_vpc_association", outcome |-> outcome, vpc |-> vpc, cloud |-> {},
     parent |-> parent]

\* create_vpc_association: the rules, the insert, then the associated_vpc
\* tag on the parent
CreateVpcAssociation(vpc, c, routable, parent) ==
    LET found == ById(prefixes, parent)
        pp == CHOOSE p \in found : TRUE
        o == ValidateAssociation(prefixes, assocs, vpc, c, parent)
    IN /\ o = "ok" => Cardinality(assocs) < MaxAssocs
       /\ assocs' = IF o = "ok" THEN assocs \cup {AssocRow(vpc, c, routable, parent)}
                    ELSE assocs
       /\ prefixes' = IF o = "ok"
                      THEN (prefixes \ {pp}) \cup
                           {Written(prefixes,
                                    [pp EXCEPT !.tags = TagPut(pp.tags, "associated_vpc", vpc)])}
                      ELSE prefixes
       /\ lastOp' = AssocOp(o, vpc, parent)
       /\ UNCHANGED <<cycle, vrfs, isDefault, vpcs, idem, execs, req, ret>>

\* remove_vpc_association: deletes the row and, when it was the parent's
\* last one, drops the associated_vpc tag
RemoveVpcAssociation(a) ==
    LET rest == assocs \ {a}
        found == ById(prefixes, a.parent)
        pp == CHOOSE p \in found : TRUE
    IN /\ a \in assocs
       /\ assocs' = rest
       /\ prefixes' = IF /\ ~ \E b \in rest : b.parent = a.parent
                         /\ found # {}
                         /\ HasTag(pp.tags, "associated_vpc")
                         /\ pp.source = "manual"
                      THEN (prefixes \ {pp}) \cup
                           {Written(prefixes,
                                    [pp EXCEPT !.tags = TagPop(pp.tags, "associated_vpc")])}
                      ELSE prefixes
       /\ lastOp' = Op("remove_vpc_association", "ok")
       /\ UNCHANGED <<cycle, vrfs, isDefault, vpcs, idem, execs, req, ret>>

----------------------------------------------------------------------------
\* AWSVPCSubnetSync

\* fetch_vpc_subnets that reports an unreachable VPC as an empty, reachable one
FetchVpcSubnetsAlwaysReachable(status, cloud) ==
    [subnets |-> IF status = "ok" THEN cloud ELSE {}, reachable |-> TRUE]

\* fetch_vpc_subnets: any error of describe_vpcs or of the subnet pages
\* gives ([], False)
FetchVpcSubnets(status, cloud) ==
    IF status = "ok" THEN [subnets |-> cloud, reachable |-> TRUE]
    ELSE [subnets |-> {}, reachable |-> FALSE]

\* the tags both _create_subnet_prefix and _update_subnet_prefix write
SubnetTags(tags) ==
    TagPut(TagPut(TagPut(TagPut(tags, "aws_subnet_id", "sid"),
        "availability_zone", "az"), "state", "available"), "last_sync", TS)

NoAssoc == AssocRow(NULL, <<>>, TRUE, NoId)

\* _create_subnet_prefix given the association row its .first() returned
\* (NoAssoc for none): the prefix and vrf tables afterwards. Every exception
\* is caught and logged; a VRF that _ensure_vpc_vrf committed stays.
CreateSubnetPrefixWith(P, V, a, vpc, c) ==
    LET cp == { p \in P : p.cidr = a.cidr /\ p.vrf = PROD_VRF }
        vpcCidrPrefix == CHOOSE p \in cp : TRUE
        inside == SubnetOf(c, a.cidr)
        hasParent == a # NoAssoc /\ cp # {} /\ inside = "yes"
        parentId == IF hasParent THEN vpcCidrPrefix.id ELSE NoId
        routable == IF hasParent THEN a.routable ELSE TRUE
        vrf == IF hasParent
               THEN (IF a.routable THEN vpcCidrPrefix.vrf ELSE VpcVrfName(vpc))
               ELSE PROD_VRF
        V2 == IF hasParent /\ ~ a.routable THEN V \cup {VpcVrfName(vpc)} ELSE V
        r == PrefixRow(SubnetId(vpc, c), vrf, c, parentId, "vpc", routable, FALSE, vpc,
                       TagPut(SubnetTags({}), "sync_source", "aws_auto_sync"))
    IN IF a # NoAssoc /\ cp # {} /\ inside = "TypeError"
       THEN [prefixes |-> P, vrfs |-> V, outcome |-> "TypeError"]
       ELSE IF InsertPrefix(P, V2, r) = "ok"
            THEN [prefixes |-> P \cup {Written(P, r)}, vrfs |-> V2, outcome |-> "ok"]
            ELSE [prefixes |-> P, vrfs |-> V2, outcome |-> "IntegrityError"]

\* _delete_subnet_prefix as a hard delete
DeleteSubnetPrefixHard(P, id) == { p \in P : p.id # id }

\* _delete_subnet_prefix: the tombstone tags on the row with that prefix_id
DeleteSubnetPrefix(P, id) ==
    { IF p.id = id
      THEN Written(P, [p EXCEPT !.tags = TagPut(TagPut(p.tags, "deleted_from_aws", TS),
                                                "deletion_reason", "aws_subnet_not_found")])
      ELSE p : p \in P }

\* _update_subnet_prefix that only refreshes the metadata
UpdatedTagsNoResurrection(tags) == SubnetTags(tags)

\* the tags _update_subnet_prefix leaves on a row
UpdatedTags(tags) ==
    IF HasTag(tags, "deleted_from_aws")
    THEN TagPut(TagPop(TagPop(SubnetTags(tags), "deleted_from_aws"), "deletion_reason"),
                "resurrected_at", TS)
    ELSE SubnetTags(tags)

\* _update_subnet_prefix: the row of this VPC with that CIDR and source vpc
UpdateSubnetPrefix(P, vpc, c) ==
    { IF p.vpc = vpc /\ p.cidr = c /\ p.source = "vpc"
      THEN Written(P, [p EXCEPT !.tags = UpdatedTags(p.tags)])
      ELSE p : p \in P }

\* the .first() of the association query: any row of the VPC, or none
FirstAssociation(A, vpc) ==
    IF \E x \in A : x.vpc = vpc THEN { x \in A : x.vpc = vpc } ELSE {NoAssoc}

\* the loop over new_subnets, in any order the cloud may list them: the
\* states of the prefix and vrf tables it can end in
RECURSIVE CreateNewSubnets(_, _, _, _, _)
CreateNewSubnets(P, V, A, vpc, todo) ==
    IF todo = {} THEN { [prefixes |-> P, vrfs |-> V] }
    ELSE UNION { UNION { LET res == CreateSubnetPrefixWith(P, V, a, vpc, c)
                         IN CreateNewSubnets(res.prefixes, res.vrfs, A, vpc, todo \ {c})
                         : a \in FirstAssociation(A, vpc) }
                 : c \in todo }

\* the loop over deleted_prefixes
RECURSIVE MarkDeleted(_, _)
MarkDeleted(P, ids) ==
    IF ids = {} THEN P
    ELSE LET id == CHOOSE x \in ids : TRUE
         IN MarkDeleted(DeleteSubnetPrefix(P, id), ids \ {id})

\* the loop over update_subnets
RECURSIVE UpdateSubnets(_, _, _)
UpdateSubnets(P, vpc, cidrs) ==
    IF cidrs = {} THEN P
    ELSE LET c == CHOOSE x \in cidrs : TRUE
         IN UpdateSubnets(UpdateSubnetPrefix(P, vpc, c), vpc, cidrs \ {c})

\* the existing-prefix query without its vpc_id filter
ExistingPrefixesAnyVpc(P, vpc) == { p \in P : p.source = "vpc" }

\* sync_vpc_subnets' query of the stored subnet prefixes of the VPC
ExistingPrefixes(P, vpc) == { p \in P : p.vpc = vpc /\ p.source = "vpc" }

SyncOp(vpc, status, cloud) ==
    [op |-> "run_sync_cycle", outcome |-> status, vpc |-> vpc, cloud |-> cloud]

\* run_sync_cycle for one VPC of the registry: fetch_vpc_subnets, the skip
\* of an unreachable VPC, else sync_vpc_subnets (the stored rows of the VPC,
\* the three CIDR sets, then creates, tombstones and updates in that order)
SyncVpcBody(vpc, status, cloud) ==
    LET f == FetchVpcSubnets(status, cloud)
        existing == ExistingPrefixes(prefixes, vpc)
        existingCidrs == { p.cidr : p \in existing }
        newCidrs == f.subnets \ existingCidrs
        deletedCidrs == existingCidrs \ f.subnets
        updateCidrs == f.subnets \cap existingCidrs
        deletedIds == { p.id : p \in { x \in existing : x.cidr \in deletedCidrs } }
    IN /\ Cardinality(prefixes) + Cardinality(newCidrs) <= MaxPrefixes
       /\ IF ~ f.reachable
          THEN UNCHANGED <<prefixes, vrfs>>
          ELSE \E res \in CreateNewSubnets(prefixes, vrfs, assocs, vpc, newCidrs) :
                 /\ prefixes' = UpdateSubnets(MarkDeleted(res.prefixes, deletedIds),
                                              vpc, updateCidrs)
                 /\ vrfs' = res.vrfs
       /\ lastOp' = SyncOp(vpc, status, cloud)
       /\ UNCHANGED <<isDefault, vpcs, assocs, idem, execs, req, ret>>

\* one pass of the loop of run_sync_cycle, the loop itself left aside
SyncVpc(vpc, status, cloud) == SyncVpcBody(vpc, status, cloud) /\ UNCHANGED cycle

\* run_sync_cycle up to its loop: load_vpc_registry reads the AWS VPCs of
\* table vpc; an empty registry ends the cycle
BeginCycle ==
    /\ cycle.pc \in {"idle", "done"}
    /\ cycle' = [pc |-> IF vpcs = {} THEN "done" ELSE "running",
                 registry |-> vpcs, todo |-> vpcs, attempted |-> {}, synced |-> {}]
    /\ lastOp' = Op("load_vpc_registry", "ok")
    /\ UNCHANGED <<vrfs, isDefault, vpcs, prefixes, assocs, idem, execs, req, ret>>

\* a loop that an unreachable VPC or an exception ends
RemainingAfterAbort(todo, vpc, status) == IF status = "ok" THEN todo \ {vpc} ELSE {}

\* the VPCs the loop of run_sync_cycle still has to visit after vpc: the
\* continue of an unreachable VPC and the except inside the loop both go on
\* with the next one
RemainingAfter(todo, vpc, status) == todo \ {vpc}

\* one pass of the loop of run_sync_cycle for a VPC of the loaded registry;
\* status db_error is an exception of sync_vpc_subnets before it wrote;
\* synced are the VPCs that successful_syncs counts
CycleStep(vpc, status, cloud) ==
    /\ cycle.pc = "running"
    /\ vpc \in cycle.todo
    /\ IF status = "db_error"
       THEN /\ lastOp' = SyncOp(vpc, status, cloud)
            /\ UNCHANGED <<vrfs, isDefault, vpcs, prefixes, assocs, idem, execs, req, ret>>
       ELSE SyncVpcBody(vpc, status, cloud)
    /\ cycle' = [cycle EXCEPT !.todo = RemainingAfter(cycle.todo, vpc, status),
                              !.attempted = @ \cup {vpc},
                              !.synced = IF status = "ok" THEN @ \cup {vpc} ELSE @]

\* the end of run_sync_cycle: the loop is through, the summary is logged
EndCycle ==
    /\ cycle.pc = "running"
    /\ cycle.todo = {}
    /\ cycle' = [cycle EXCEPT !.pc = "done"]
    /\ lastOp' = Op("sync_cycle_completed", "ok")
    /\ UNCHANGED <<vrfs, isDefault, vpcs, prefixes, assocs, idem, execs, req, ret>>

----------------------------------------------------------------------------
\* The store with its handlers as single steps, and the reconciler

NoTags == {}
InputVrfs == {PROD_VRF, PUBLIC_VRF}
InputCidrs == {<<4, 0, 0>>, <<4, 0, 1>>}
InputParents == {NoId, ManualId(PROD_VRF, <<4, 0, 0>>), ManualId(PROD_VRF, <<4, 0, 1>>)}
InputSizes == {1, 2}

\* the callers of PrefixManager that share the database, and what one of
\* them holds between two sessions
Workers == {"w1", "w2"}

Request(pc, kind, size, parent, remaining, cur, cand, outcome) ==
    [pc |-> pc, kind |-> kind, size |-> size, parent |-> parent,
     remaining |-> remaining, cur |-> cur, cand |-> cand, outcome |-> outcome]

Idle == Request("idle", "-", 0, NoId, {}, NoId, <<>>, "-")

\* no sync cycle running
NoCycle == [pc |-> "idle", registry |-> {}, todo |-> {}, attempted |-> {}, synced |-> {}]

\* no process_request call yet
NoCall ==
    [rid |-> NULL, actual |-> NULL, endpoint |-> "-", method |-> "-", params |-> {},
     outcome |-> "-", response |-> [kind |-> "none"], status |-> 0]

Init ==
    /\ vrfs = {}
    /\ isDefault = {}
    /\ vpcs = Vpcs
    /\ cycle = NoCycle
    /\ prefixes = {}
    /\ assocs = {}
    /\ idem = <<>>
    /\ execs = <<>>
    /\ req = [w \in Workers |-> Idle]
    /\ ret = NoCall
    /\ lastOp = Op("init", "ok")

Next ==
    \/ \E v \in InputVrfs : CreateVrf(v)
    \/ \E v \in InputVrfs, c \in InputCidrs, par \in InputParents :
         CreateManualPrefix(v, c, par, NoTags, TRUE, FALSE)
    \/ \E n \in InputSizes, par \in InputParents :
         AllocateSubnet(PROD_VRF, n, NoTags, TRUE, par, FALSE)
    \/ \E p \in prefixes, c \in InputCidrs : UpdateManualPrefix(p.id, "cidr", c)
    \/ \E p \in prefixes : DeleteManualPrefix(p.id)
    \/ \E c \in InputCidrs : CreatePublicIpPrefix("v1", c, NoTags)
    \/ \E c \in InputCidrs : CreateStandalonePublicIpPrefix(c, NoTags)
    \/ \E cl \in SUBSET {<<4, 0, 1>>} : SyncVpc("v1", "ok", cl)

Spec == Init /\ [][Next]_vars

----------------------------------------------------------------------------
\* The reconciler with the associations that place its subnets

CloudCidrs == {<<4, 0, 1>>, <<4, 0, 2>>}
CloudStatus == {"ok", "probe_error", "fetch_error"}
VpcParent == ManualId(PROD_VRF, <<4, 0, 0>>)

NextSync ==
    \/ \E v \in InputVrfs : CreateVrf(v)
    \/ CreateManualPrefix(PROD_VRF, <<4, 0, 0>>, NoId, NoTags, TRUE, FALSE)
    \/ \E r \in BOOLEAN : CreateVpcAssociation("v1", <<4, 0, 0>>, r, VpcParent)
    \/ \E a \in assocs : RemoveVpcAssociation(a)
    \/ CreatePublicIpPrefix("v1", <<4, 0, 2>>, NoTags)
    \/ \E v \in Vpcs, st \in CloudStatus, cl \in SUBSET CloudCidrs : SyncVpc(v, st, cl)

SpecSync == Init /\ [][NextSync]_vars

----------------------------------------------------------------------------
\* Properties of the prefix store

Tombstoned(p) == HasTag(p.tags, "deleted_from_aws")
SameKey(p, q) == p.vrf = q.vrf /\ p.cidr = q.cidr

\* C1: every prefix with a parent_prefix_id lies strictly inside its parent's
\* network, in the parent's IP version and in the parent's VRF.
ParentContainment ==
    \A p \in prefixes :
        p.parent # NoId =>
            \E q \in prefixes : /\ q.id = p.parent
                                /\ StrictlyInside(p.cidr, q.cidr)
                                /\ Ver(p.cidr) = Ver(q.cidr)
                                /\ p.vrf = q.vrf

\* C2: no two prefixes with the same parent_prefix_id (or both without a
\* parent in the same VRF) overlap.
SiblingsDisjoint ==
    \A p, q \in prefixes :
        (p # q /\ p.parent = q.parent /\ (p.parent = NoId => p.vrf = q.vrf))
            => ~ Overlaps(p.cidr, q.cidr)

UniqueVrfCidr == \A p, q \in prefixes : SameKey(p, q) => p = q

CreateOps ==
    {"create_manual_prefix", "create_public_ip_prefix",
     "create_standalone_public_ip_prefix", "allocate_subnet"}

\* a create that is accepted adds one row whose (vrf_id, cidr) no row had;
\* a create that is rejected leaves the table as it was
DuplicateRejected ==
    lastOp'.op \in CreateOps =>
        IF lastOp'.outcome = "ok"
        THEN \E r \in prefixes' \ prefixes :
                /\ prefixes' = prefixes \cup {r}
                /\ ~ \E p \in prefixes : SameKey(p, r)
        ELSE prefixes' = prefixes

\* C3: (vrf_id, cidr) is unique among the prefixes in every state, and a
\* create whose (vrf_id, cidr) is already stored is rejected and changes
\* no row.
UniqueKeyKept == []UniqueVrfCidr /\ [][DuplicateRejected]_vars

\* a manual create was refused as a duplicate of a stored row
DuplicateRefused ==
    /\ lastOp.op = "create_manual_prefix"
    /\ lastOp.outcome = "DuplicateCIDR"
    /\ prefixes # {}

----------------------------------------------------------------------------
\* Properties of the reconciler

VpcRows(P, vpc) == { p \in P : p.vpc = vpc }
SyncStep == lastOp'.op = "run_sync_cycle"

\* C8: a sync cycle whose probe or fetch of VPC V fails leaves every prefix
\* with vpc_id = V as it was.
UnreachablePreserves ==
    [][(SyncStep /\ lastOp'.outcome # "ok")
          => VpcRows(prefixes', lastOp'.vpc) = VpcRows(prefixes, lastOp'.vpc)]_vars

\* a cycle failed to reach a VPC that has a live row the cloud did not report
UnreachableSkipped ==
    /\ lastOp.op = "run_sync_cycle"
    /\ lastOp.outcome # "ok"
    /\ \E p \in VpcRows(prefixes, lastOp.vpc) : p.cidr \notin lastOp.cloud /\ ~ Tombstoned(p)

\* C9: a sync step removes no row, and after a reachable sync of V every
\* stored source=vpc prefix of V whose CIDR the cloud did not report is
\* still there under its prefix_id with deleted_from_aws and deletion_reason.
TombstoneNotDelete ==
    [][SyncStep =>
          /\ \A p \in prefixes : \E q \in prefixes' : q.id = p.id
          /\ lastOp'.outcome = "ok" =>
               \A p \in VpcRows(prefixes, lastOp'.vpc) :
                   (p.source = "vpc" /\ p.cidr \notin lastOp'.cloud) =>
                       \E q \in prefixes' : /\ q.id = p.id
                                            /\ HasTag(q.tags, "deleted_from_aws")
                                            /\ HasTag(q.tags, "deletion_reason")]_vars

\* a reachable cycle left a tombstone on a row the cloud did not report
TombstoneLeft ==
    /\ lastOp.op = "run_sync_cycle"
    /\ lastOp.outcome = "ok"
    /\ \E p \in VpcRows(prefixes, lastOp.vpc) :
          /\ p.cidr \notin lastOp.cloud
          /\ Tombstoned(p)
          /\ HasTag(p.tags, "deletion_reason")

\* C10: a tombstoned source=vpc prefix of V whose CIDR a reachable cycle
\* reports again keeps its prefix_id, loses deleted_from_aws and
\* deletion_reason and carries resurrected_at after that cycle.
ResurrectionRoundTrip ==
    [][(SyncStep /\ lastOp'.outcome = "ok") =>
          \A p \in VpcRows(prefixes, lastOp'.vpc) :
              (p.source = "vpc" /\ Tombstoned(p) /\ p.cidr \in lastOp'.cloud) =>
                  \E q \in prefixes' : /\ q.id = p.id
                                       /\ ~ HasTag(q.tags, "deleted_from_aws")
                                       /\ ~ HasTag(q.tags, "deletion_reason")
                                       /\ HasTag(q.tags, "resurrected_at")]_vars

\* a reachable cycle reported the CIDR of a row that now carries
\* resurrected_at and no deletion marker
Resurrected ==
    /\ lastOp.op = "run_sync_cycle"
    /\ lastOp.outcome = "ok"
    /\ \E p \in VpcRows(prefixes, lastOp.vpc) :
          /\ p.cidr \in lastOp.cloud
          /\ HasTag(p.tags, "resurrected_at")
          /\ ~ Tombstoned(p)

\* rows that do not belong to the VPC: other VPCs' rows and manual rows
OtherRows(P, vpc) == { p \in P : p.vpc # vpc }

\* C11: a sync step for VPC V leaves every prefix whose vpc_id is not V
\* (another VPC's prefix or a manual prefix) exactly as it was.
SyncTouchesOwnVpcOnly ==
    [][SyncStep => OtherRows(prefixes', lastOp'.vpc) = OtherRows(prefixes, lastOp'.vpc)]_vars

\* a reachable cycle changed a row of its VPC while another VPC had a row
\* the cloud report of this cycle did not list
OtherVpcBystander ==
    /\ lastOp.op = "run_sync_cycle"
    /\ lastOp.outcome = "ok"
    /\ \E p \in VpcRows(prefixes, lastOp.vpc) : Tombstoned(p)
    /\ \E q \in prefixes : /\ q.vpc \notin {lastOp.vpc, NULL}
                           /\ q.cidr \notin lastOp.cloud
                           /\ ~ Tombstoned(q)

----------------------------------------------------------------------------
\* Two writers on one database. create_manual_prefix validates in one
\* session and inserts in another; allocate_subnet queries the parents,
\* reads each parent's children, and then calls create_manual_prefix. Each
\* session is a step; the other writer may commit between any two.

RootCidr == <<4, 0, 0>>
RootId == ManualId(PROD_VRF, RootCidr)
ConcCidrs == {RootCidr, <<4, 0, 1>>, <<4, 2, 2>>}
ConcParents == {NoId, RootId}

Finish(w, r, outcome) ==
    req' = [req EXCEPT ![w] = [r EXCEPT !.pc = "done", !.outcome = outcome]]

\* a caller enters create_manual_prefix
BeginCreate(w, c, parent) ==
    /\ req[w].pc = "idle"
    /\ req' = [req EXCEPT ![w] = Request("validate", "create", 0, parent, {}, parent, c, "-")]
    /\ UNCHANGED <<cycle, vrfs, isDefault, vpcs, prefixes, assocs, idem, execs, ret, lastOp>>

\* a caller enters allocate_subnet: find_matching_parent_prefixes
BeginAllocate(w, size, parent) ==
    LET found == FindMatchingParentPrefixes(prefixes, PROD_VRF, NoTags, parent)
        r == Request("loop", "allocate", size, parent, found, NoId, <<>>, "-")
    IN /\ req[w].pc = "idle"
       /\ IF found = {} THEN Finish(w, r, "NoParent")
          ELSE req' = [req EXCEPT ![w] = r]
       /\ UNCHANGED <<cycle, vrfs, isDefault, vpcs, prefixes, assocs, idem, execs, ret, lastOp>>

\* the head of allocate_subnet's loop: the next parent, the routable check
\* and calculate_available_subnets on the rows committed by now
PickCandidate(w) ==
    LET r == req[w]
    IN /\ r.pc = "loop"
       /\ IF r.remaining = {} THEN Finish(w, r, "NoSpaceAvailable")
          ELSE \E q \in r.remaining :
                 LET avail == CalculateAvailableSubnets(prefixes, q, r.size)
                     rest == r.remaining \ {q}
                 IN IF ~ q.routable \/ avail.err \/ avail.subs = <<>>
                    THEN req' = [req EXCEPT ![w] = [r EXCEPT !.remaining = rest]]
                    ELSE req' = [req EXCEPT ![w] = [r EXCEPT !.remaining = rest,
                                    !.cur = q.id, !.cand = avail.subs[1], !.pc = "validate"]]
       /\ UNCHANGED <<cycle, vrfs, isDefault, vpcs, prefixes, assocs, idem, execs, ret, lastOp>>

\* validate_prefix_conflicts in its own session; its ValueError ends
\* create_manual_prefix and sends allocate_subnet to the next parent
Validate(w) ==
    LET r == req[w]
        v == ValidatePrefixConflicts(prefixes, PROD_VRF, r.cand, r.cur)
    IN /\ r.pc = "validate"
       /\ IF v = "ok" THEN req' = [req EXCEPT ![w] = [r EXCEPT !.pc = "insert"]]
          ELSE IF r.kind = "allocate"
               THEN req' = [req EXCEPT ![w] = [r EXCEPT !.pc = "loop", !.cur = NoId, !.cand = <<>>]]
               ELSE Finish(w, r, v)
       /\ UNCHANGED <<cycle, vrfs, isDefault, vpcs, prefixes, assocs, idem, execs, ret, lastOp>>

\* session.add and commit of create_manual_prefix; an IntegrityError is no
\* ValueError, so it leaves allocate_subnet's loop as well
Insert(w) ==
    LET r == req[w]
        tags == IF r.kind = "allocate" THEN AllocationTags(NoTags, r.cur) ELSE NoTags
        row == ManualRow(PROD_VRF, r.cand, r.cur, tags, TRUE, FALSE)
        o == InsertPrefix(prefixes, vrfs, row)
    IN /\ r.pc = "insert"
       /\ o = "ok" => Cardinality(prefixes) < MaxConcPrefixes
       /\ prefixes' = IF o = "ok" THEN prefixes \cup {Written(prefixes, row)} ELSE prefixes
       /\ Finish(w, r, o)
       /\ UNCHANGED <<cycle, vrfs, isDefault, vpcs, assocs, idem, execs, ret, lastOp>>

\* the caller has its answer; the next request may come
Return(w) ==
    /\ req[w].pc = "done"
    /\ req' = [req EXCEPT ![w] = Idle]
    /\ UNCHANGED <<cycle, vrfs, isDefault, vpcs, prefixes, assocs, idem, execs, ret, lastOp>>

ConcVrf ==
    /\ PROD_VRF \notin vrfs
    /\ vrfs' = vrfs \cup {PROD_VRF}
    /\ UNCHANGED <<cycle, isDefault, vpcs, prefixes, assocs, idem, execs, req, ret, lastOp>>

NextConc ==
    \/ ConcVrf
    \/ \E w \in Workers, c \in ConcCidrs, par \in ConcParents : BeginCreate(w, c, par)
    \/ \E w \in Workers, n \in InputSizes, par \in ConcParents : BeginAllocate(w, n, par)
    \/ \E w \in Workers : PickCandidate(w)
    \/ \E w \in Workers : Validate(w)
    \/ \E w \in Workers : Insert(w)
    \/ \E w \in Workers : Return(w)

SpecConc == Init /\ [][NextConc]_vars

----------------------------------------------------------------------------
\* Properties of two writers

Committed(w) == req[w].pc = "done" /\ req[w].outcome = "ok"

\* C6: of two requests in flight against the same parent, no CIDR is
\* returned as a success to both, and the two never both commit networks
\* that overlap.
AtomicValidateInsert ==
    \A w1, w2 \in Workers :
        (/\ w1 # w2 /\ Committed(w1) /\ Committed(w2)
         /\ req[w1].cur # NoId /\ req[w1].cur = req[w2].cur)
            => /\ req[w1].cand # req[w2].cand
               /\ ~ Overlaps(req[w1].cand, req[w2].cand)

\* the parents an allocation would find now that still have a free slot
FreeSlotLeft(r) ==
    \E q \in FindMatchingParentPrefixes(prefixes, PROD_VRF, NoTags, r.parent) :
        /\ q.routable
        /\ CalculateAvailableSubnets(prefixes, q, r.size).subs # <<>>

\* C7: an allocation that lost the commit race does not end with the raw
\* conflict while a parent it searches still has a free slot of its size.
RaceLoserRetried ==
    \A w \in Workers :
        (req[w].pc = "done" /\ req[w].kind = "allocate" /\ req[w].outcome = "IntegrityError")
            => ~ FreeSlotLeft(req[w])

----------------------------------------------------------------------------
\* IdempotencyService and IdempotencyManager

RequestIds == {"r1"}
GeneratedIds == {"g1"}
Endpoints == {"/api/prefixes", "/api/prefixes/allocate-subnet"}
Methods == {"POST", "PUT"}
InputParams ==
    { {<<"cidr", "a">>}, {<<"cidr", "b">>}, {<<"cidr", "a">>, <<"request_id", "r1">>} }

\* _calculate_request_hash: the parameters without request_id, rendered
\* with sorted keys; two parameter sets hash alike exactly when these agree
CalculateRequestHash(params) == { kv \in params : kv[1] # "request_id" }

\* the values a processor returns: a datetime, a string, a dict of them and
\* a Pydantic model of them
Datetime(v) == [kind |-> "datetime", v |-> v]
Str(v) == [kind |-> "str", v |-> v]
Dict(id, at) == [kind |-> "dict", prefix_id |-> id, created_at |-> at]
Model(id, at) == [kind |-> "model", prefix_id |-> id, created_at |-> at]
NoResponse == [kind |-> "none"]
Raised == [kind |-> "raise"]

\* the results of the processors: the dict of the tests, the response model
\* of the handlers, or an exception
ProcessorResults ==
    { Dict(Str("p"), Str(TS)), Model(Str("p"), Datetime(TS)), Raised }

\* _serialize_for_storage on a leaf: a datetime becomes its isoformat string
SerializeLeaf(x) == IF x.kind = "datetime" THEN Str(x.v) ELSE x

\* _serialize_for_storage: dicts and models become dicts of serialized values
SerializeForStorage(data) ==
    IF data.kind \in {"dict", "model"}
    THEN Dict(SerializeLeaf(data.prefix_id), SerializeLeaf(data.created_at))
    ELSE SerializeLeaf(data)

IdempotencyRecord(e, m, params, response, status) ==
    [endpoint |-> e, method |-> m, request_hash |-> CalculateRequestHash(params),
     request_params |-> params, response_data |-> response, status_code |-> status]

Checked(kind, response, status) == [kind |-> kind, response |-> response, status |-> status]

\* check_idempotency without the comparison of the hashes
CheckIdempotencyNoHash(I, rid, e, m, params) ==
    IF rid \notin DOMAIN I THEN Checked("none", NoResponse, 0)
    ELSE IF I[rid].endpoint # e \/ I[rid].method # m
         THEN Checked("ParameterMismatch", NoResponse, 0)
         ELSE Checked("cached", I[rid].response_data, I[rid].status_code)

\* check_idempotency that never finds a record
CheckIdempotencyNoRecord(I, rid, e, m, params) == Checked("none", NoResponse, 0)

\* check_idempotency: no record, a record of another endpoint or method, a
\* record of another hash, or the stored response and status
CheckIdempotency(I, rid, e, m, params) ==
    IF rid \notin DOMAIN I THEN Checked("none", NoResponse, 0)
    ELSE IF I[rid].endpoint # e \/ I[rid].method # m
         THEN Checked("ParameterMismatch", NoResponse, 0)
         ELSE IF I[rid].request_hash # CalculateRequestHash(params)
              THEN Checked("ParameterMismatch", NoResponse, 0)
              ELSE Checked("cached", I[rid].response_data, I[rid].status_code)

\* store_response as an upsert
StoreResponseUpsert(I, rid, e, m, params, response, status) ==
    [ r \in DOMAIN I \cup {rid} |->
        IF r = rid
        THEN IdempotencyRecord(e, m, params, SerializeForStorage(response), status)
        ELSE I[r] ]

\* store_response: the insert of the serialized response; the IntegrityError
\* of an existing request_id is swallowed
StoreResponse(I, rid, e, m, params, response, status) ==
    IF rid \in DOMAIN I THEN I
    ELSE I @@ (rid :> IdempotencyRecord(e, m, params, SerializeForStorage(response), status))

Call(rid, actual, e, m, params, outcome, response, status) ==
    [rid |-> rid, actual |-> actual, endpoint |-> e, method |-> m, params |-> params,
     outcome |-> outcome, response |-> response, status |-> status]

Execution(rid, ok, response, status) ==
    [rid |-> rid, ok |-> ok, response |-> response, status |-> status]

\* generate_request_id that may hand out an identifier a second time
GenerateRequestIdReused(I) == GeneratedIds

\* generate_request_id: str(uuid.uuid4()), an identifier no record has
GenerateRequestId(I) == GeneratedIds \ DOMAIN I

\* process_request: the generated id of a call without one, the check, and
\* for a new request the processor, status 200 and the store; an exception
\* of the processor passes through and nothing is stored. op is what lastOp
\* keeps of the caller.
ProcessRequestAs(rid, e, m, params, op) ==
    \E actual \in (IF rid = NULL THEN GenerateRequestId(idem) ELSE {rid}) :
        LET chk == CheckIdempotency(idem, actual, e, m, params)
        IN /\ IF chk.kind = "ParameterMismatch"
              THEN /\ ret' = Call(rid, actual, e, m, params, "ParameterMismatch", NoResponse, 409)
                   /\ UNCHANGED <<idem, execs>>
              ELSE IF chk.kind = "cached"
              THEN /\ ret' = Call(rid, actual, e, m, params, "cached", chk.response, chk.status)
                   /\ UNCHANGED <<idem, execs>>
              ELSE /\ Len(execs) < MaxExecs
                   /\ \E out \in ProcessorResults :
                        IF out = Raised
                        THEN /\ execs' = Append(execs, Execution(actual, FALSE, NoResponse, 0))
                             /\ ret' = Call(rid, actual, e, m, params, "raised", NoResponse, 0)
                             /\ UNCHANGED idem
                        ELSE /\ execs' = Append(execs, Execution(actual, TRUE, out, 200))
                             /\ idem' = StoreResponse(idem, actual, e, m, params, out, 200)
                             /\ ret' = Call(rid, actual, e, m, params, "executed", out, 200)
           /\ lastOp' = [op EXCEPT !.outcome = ret'.outcome]
           /\ UNCHANGED <<cycle, vrfs, isDefault, vpcs, prefixes, assocs, req>>

\* process_request called directly
ProcessRequest(rid, e, m, params) ==
    ProcessRequestAs(rid, e, m, params, Op("process_request", "-"))

NextIdem ==
    \E rid \in RequestIds \cup {NULL}, e \in Endpoints, m \in Methods, params \in InputParams :
        ProcessRequest(rid, e, m, params)

SpecIdem == Init /\ [][NextIdem]_vars

----------------------------------------------------------------------------
\* Properties of the idempotency layer

ProcessStep == lastOp'.op = "process_request"

\* the successful executions of the operation under a request id
Successes(rid) == { i \in 1..Len(execs) : execs[i].rid = rid /\ execs[i].ok }

ExecutedOnce == \A rid \in DOMAIN idem : Cardinality(Successes(rid)) = 1

\* C4 as stated: the call that repeats a successful call returns the very
\* response, status code and request id the first call returned, and does
\* not execute the operation.
ReplayReturnsSame ==
    [][(ProcessStep /\ ret'.outcome = "cached") =>
          /\ execs' = execs
          /\ \E i \in Successes(ret'.actual) :
                /\ ret'.response = execs[i].response
                /\ ret'.status = execs[i].status
                /\ ret'.actual = execs[i].rid]_vars

ReplaysStored ==
    (ProcessStep /\ ret'.outcome = "cached") =>
        /\ execs' = execs
        /\ idem' = idem
        /\ \E i \in Successes(ret'.actual) :
              /\ ret'.response = SerializeForStorage(execs[i].response)
              /\ ret'.status = execs[i].status
              /\ ret'.actual = execs[i].rid

\* C4 amended: the call that repeats a successful call returns the first
\* response as _serialize_for_storage renders it (the first call returned
\* the processor's own object), with the first status code and request id;
\* the operation succeeded exactly once under the request id and the
\* repeating call does not execute it.
ReplayReturnsStored == []ExecutedOnce /\ [][ReplaysStored]_vars

\* a call was answered from the record of a response model with a datetime
ReplayedModel ==
    /\ ret.outcome = "cached"
    /\ \E i \in Successes(ret.actual) : execs[i].response.kind = "model"

Differs(record, call) ==
    \/ record.endpoint # call.endpoint
    \/ record.method # call.method
    \/ record.request_hash # CalculateRequestHash(call.params)

\* C5: a request whose id has a record that differs from it in endpoint,
\* method or parameter hash fails with ParameterMismatch, executes nothing
\* and leaves the records as they were.
MismatchRejected ==
    [][(/\ ProcessStep
        /\ ret'.actual \in DOMAIN idem
        /\ Differs(idem[ret'.actual], ret'))
          => /\ ret'.outcome = "ParameterMismatch"
             /\ execs' = execs
             /\ idem' = idem]_vars

\* a call was refused for its parameters alone
MismatchSeen ==
    /\ ret.outcome = "ParameterMismatch"
    /\ ret.actual \in DOMAIN idem
    /\ idem[ret.actual].endpoint = ret.endpoint
    /\ idem[ret.actual].method = ret.method

----------------------------------------------------------------------------
\* The allocator over parents with children of either source

AllocCidrs == {RootCidr, <<4, 0, 1>>, <<4, 2, 1>>, <<4, 0, 2>>}

NextAlloc ==
    \/ CreateVrf(PROD_VRF)
    \/ \E c \in AllocCidrs, par \in ConcParents :
          CreateManualPrefix(PROD_VRF, c, par, NoTags, TRUE, FALSE)
    \/ \E n \in InputSizes, par \in ConcParents :
          AllocateSubnet(PROD_VRF, n, NoTags, TRUE, par, FALSE)
    \/ \E p \in prefixes : DeleteManualPrefix(p.id)
    \/ CreateVpcAssociation("v1", RootCidr, TRUE, RootId)
    \/ \E cl \in SUBSET {<<4, 0, 2>>} : SyncVpc("v1", "ok", cl)

SpecAlloc == Init /\ [][NextAlloc]_vars

----------------------------------------------------------------------------
\* Properties of the allocator

AllocStep == lastOp'.op = "allocate_subnet" /\ lastOp'.outcome = "ok"

ChildrenOf(P, id) == { p \in P : p.parent = id }

\* the networks of length m inside network qc
Candidates(qc, m) ==
    { <<Ver(qc), a, m>> : a \in { x \in NetAddr(qc)..Broadcast(qc) : x % Pow2(AddrBits - m) = 0 } }

\* C12: a successful allocation under parent Q adds the lowest-addressed
\* subnet of the requested length inside Q that overlaps no child of Q,
\* whatever the children's source and tombstone tags: every lower-addressed
\* subnet of that length overlaps some child.
FirstFit ==
    [][AllocStep =>
          /\ prefixes' \ prefixes # {}
          /\ \A r \in prefixes' \ prefixes :
                \E q \in prefixes :
                    /\ q.id = r.parent
                    /\ r.cidr \in Candidates(q.cidr, PrefixLen(r.cidr))
                    /\ \A ch \in ChildrenOf(prefixes, q.id) : ~ Overlaps(r.cidr, ch.cidr)
                    /\ \A s \in Candidates(q.cidr, PrefixLen(r.cidr)) :
                          NetAddr(s) < NetAddr(r.cidr) =>
                              \E ch \in ChildrenOf(prefixes, q.id) : Overlaps(s, ch.cidr)]_vars

\* an allocation went past a tombstoned cloud subnet of the same parent
AllocatedPastTombstone ==
    /\ lastOp.op = "allocate_subnet"
    /\ lastOp.outcome = "ok"
    /\ \E r \in prefixes :
          /\ HasTag(r.tags, "allocated_from")
          /\ \E ch \in ChildrenOf(prefixes, r.parent) :
                /\ ch.source = "vpc"
                /\ Tombstoned(ch)
                /\ NetAddr(ch.cidr) < NetAddr(r.cidr)

\* C13: the prefix a successful allocation adds has the requested mask
\* length, lies inside the CIDR of the prefix recorded as its
\* parent_prefix_id, and that parent, the CIDR and the prefix_id are the
\* ones the allocation result returns.
AllocatedAsRequested ==
    [][AllocStep =>
          \E r \in prefixes' \ prefixes :
              /\ prefixes' = prefixes \cup {r}
              /\ PrefixLen(r.cidr) = lastOp'.size
              /\ r.cidr = lastOp'.result.allocated_cidr
              /\ r.id = lastOp'.result.prefix_id
              /\ r.parent = lastOp'.result.parent_prefix_id
              /\ \E q \in prefixes' : q.id = r.parent /\ SubnetOf(r.cidr, q.cidr) = "yes"]_vars

\* an allocation of the longest mask under a parent that is not the root
AllocatedUnderChild ==
    /\ lastOp.op = "allocate_subnet"
    /\ lastOp.outcome = "ok"
    /\ lastOp.size = 2
    /\ \E r \in prefixes : /\ r.id = lastOp.result.prefix_id
                           /\ r.parent = lastOp.result.parent_prefix_id
                           /\ r.parent \notin {NoId, RootId}

\* C14: in every store state, each AllocateSubnet request has one possible
\* result (the same parent and the same subnet, or the same failure),
\* whatever the order in which the store returns the matching parents.
AllocationDeterministic ==
    \A n \in InputSizes, par \in ConcParents :
        Cardinality(AllocationResults(prefixes, vrfs, PROD_VRF, n, NoTags, TRUE, par, FALSE)) = 1

----------------------------------------------------------------------------
\* Associations under prefix updates and the reconciler

NextAssoc ==
    \/ \E v \in InputVrfs : CreateVrf(v)
    \/ \E rt \in BOOLEAN : CreateManualPrefix(PROD_VRF, RootCidr, NoId, NoTags, rt, FALSE)
    \/ \E vpc \in Vpcs, rt \in BOOLEAN, par \in {RootId} \cup { p.id : p \in prefixes } :
         CreateVpcAssociation(vpc, RootCidr, rt, par)
    \/ \E a \in assocs : RemoveVpcAssociation(a)
    \/ \E p \in prefixes, rt \in BOOLEAN : UpdateManualPrefix(p.id, "routable", rt)
    \/ CreatePublicIpPrefix("v1", <<4, 0, 2>>, NoTags)
    \/ \E cl \in SUBSET {<<4, 0, 1>>} : SyncVpc("v1", "ok", cl)

SpecAssoc == Init /\ [][NextAssoc]_vars

AssocsOf(A, id) == { a \in A : a.parent = id }

\* C15: every manual prefix with routable = true is the parent of at most
\* one association, after any sequence of association creates, association
\* deletes and prefix updates.
RoutableOneAssociation ==
    \A p \in prefixes :
        p.source = "manual" /\ p.routable => Cardinality(AssocsOf(assocs, p.id)) <= 1

AssocStep == lastOp'.op = "create_vpc_association"

NoVpcSourcedParent ==
    \A a \in assocs : \A p \in prefixes : p.id = a.parent => p.source # "vpc"

----------------------------------------------------------------------------
\* The prefix tree under creates, allocations, re-parenting and the reconciler

NextTree ==
    \/ CreateVrf(PROD_VRF)
    \/ \E c \in InputCidrs, par \in {NoId} \cup { p.id : p \in prefixes } :
         CreateManualPrefix(PROD_VRF, c, par, NoTags, TRUE, FALSE)
    \/ AllocateSubnet(PROD_VRF, AddrBits, NoTags, TRUE, NoId, FALSE)
    \/ \E p \in prefixes, q \in prefixes :
         /\ IndentationLevel(prefixes, [p EXCEPT !.parent = q.id]) <= MaxLevel
         /\ UpdateManualPrefix(p.id, "parent", q.id)
    \/ CreateVpcAssociation("v1", RootCidr, TRUE, RootId)
    \/ \E cl \in SUBSET {<<4, 0, 2>>} : SyncVpc("v1", "ok", cl)

SpecTree == Init /\ [][NextTree]_vars

\* the number of parent links from row r to a row without parent; -1 when
\* the links do not end within fuel steps
RECURSIVE Depth(_, _, _)
Depth(P, r, fuel) ==
    IF r.parent = NoId THEN 0
    ELSE IF fuel = 0 \/ ById(P, r.parent) = {} THEN -1
    ELSE LET d == Depth(P, CHOOSE q \in ById(P, r.parent) : TRUE, fuel - 1)
         IN IF d = -1 THEN -1 ELSE d + 1

\* C17: every prefix whose parent links lead to a root has indentation_level
\* equal to the number of those links (0 without parent, the parent's level
\* plus one otherwise), after any sequence of manual creates, allocations,
\* updates and reconciler creates.
IndentationIsDepth ==
    \A p \in prefixes :
        LET d == Depth(prefixes, p, Cardinality(prefixes))
        IN d # -1 => p.indentation_level = d

----------------------------------------------------------------------------
\* process_request called by two callers at once: check_idempotency and
\* store_response each open a session of their own, the processor runs
\* between them, and nothing is locked

\* a process_request call in progress; began counts the processor runs that
\* had ended when the call came in
IdemRequest(pc, rid, e, m, params, out, outcome, response, status, began) ==
    [pc |-> pc, rid |-> rid, endpoint |-> e, method |-> m, params |-> params, out |-> out,
     outcome |-> outcome, response |-> response, status |-> status, began |-> began]

ConcParams == { {<<"cidr", "a">>}, {<<"cidr", "b">>} }
ConcResults == { Dict(Str("p"), Str(TS)), Dict(Str("q"), Str(TS)), Raised }

\* process_request that goes on to store_response after an exception
AfterProcessorAlwaysStore(out) == "store"

\* where process_request goes after processor_func: an exception leaves the
\* function, a result goes on to store_response
AfterProcessor(out) == IF out = Raised THEN "done" ELSE "store"

\* a caller enters process_request with a request id
BeginProcessRequest(w, rid, e, m, params) ==
    /\ req[w].pc = "idle"
    /\ req' = [req EXCEPT ![w] = IdemRequest("check", rid, e, m, params, NoResponse, "-",
                                             NoResponse, 0, Len(execs))]
    /\ UNCHANGED <<cycle, vrfs, isDefault, vpcs, prefixes, assocs, idem, execs, ret, lastOp>>

\* check_idempotency in its own session
CheckStep(w) ==
    LET r == req[w]
        chk == CheckIdempotency(idem, r.rid, r.endpoint, r.method, r.params)
    IN /\ r.pc = "check"
       /\ req' = [req EXCEPT ![w] =
                    IF chk.kind = "ParameterMismatch"
                    THEN [r EXCEPT !.pc = "done", !.outcome = "ParameterMismatch", !.status = 409]
                    ELSE IF chk.kind = "cached"
                    THEN [r EXCEPT !.pc = "done", !.outcome = "cached",
                                   !.response = chk.response, !.status = chk.status]
                    ELSE [r EXCEPT !.pc = "run"]]
       /\ UNCHANGED <<cycle, vrfs, isDefault, vpcs, prefixes, assocs, idem, execs, ret, lastOp>>

\* processor_func(*args, **kwargs)
RunProcessor(w) ==
    LET r == req[w]
    IN /\ r.pc = "run"
       /\ Len(execs) < MaxExecs
       /\ \E out \in ConcResults :
            /\ execs' = Append(execs, IF out = Raised
                                      THEN Execution(r.rid, FALSE, NoResponse, 0)
                                      ELSE Execution(r.rid, TRUE, out, 200))
            /\ req' = [req EXCEPT ![w] =
                         IF AfterProcessor(out) = "done"
                         THEN [r EXCEPT !.pc = "done", !.outcome = "raised"]
                         ELSE [r EXCEPT !.pc = "store", !.out = out, !.response = out,
                                        !.status = 200]]
       /\ UNCHANGED <<cycle, vrfs, isDefault, vpcs, prefixes, assocs, idem, ret, lastOp>>

\* store_response in its own session, then the return of the processor's
\* own response
StoreStep(w) ==
    LET r == req[w]
    IN /\ r.pc = "store"
       /\ idem' = StoreResponse(idem, r.rid, r.endpoint, r.method, r.params, r.out, r.status)
       /\ req' = [req EXCEPT ![w] = [r EXCEPT !.pc = "done", !.outcome = "executed"]]
       /\ UNCHANGED <<cycle, vrfs, isDefault, vpcs, prefixes, assocs, execs, ret, lastOp>>

\* the caller has its response or its exception
ReturnResponse(w) ==
    /\ req[w].pc = "done"
    /\ req' = [req EXCEPT ![w] = Idle]
    /\ UNCHANGED <<cycle, vrfs, isDefault, vpcs, prefixes, assocs, idem, execs, ret, lastOp>>

NextIdemConc ==
    \/ \E w \in Workers, rid \in RequestIds, params \in ConcParams :
         BeginProcessRequest(w, rid, "/api/prefixes", "POST", params)
    \/ \E w \in Workers : CheckStep(w)
    \/ \E w \in Workers : RunProcessor(w)
    \/ \E w \in Workers : StoreStep(w)
    \/ \E w \in Workers : ReturnResponse(w)

SpecIdemConc == Init /\ [][NextIdemConc]_vars

InCall(w) == req[w].pc \in {"check", "run", "store", "done"}

RecordNeedsSuccess == \A rid \in DOMAIN idem : Successes(rid) # {}

\* C18: a processor that raises leaves no record behind (every record
\* belongs to a request id under which the operation succeeded), and a
\* request whose id has no successful run so far is not answered from the
\* cache: its check sends it on to the processor.
FailedNotRecorded ==
    /\ []RecordNeedsSuccess
    /\ [][\A w \in Workers :
            (req[w].pc = "check" /\ req'[w].pc # "check" /\ Successes(req[w].rid) = {})
               => req'[w].pc = "run"]_vars

\* a request came in after the operation had failed under its id, and was
\* executed
RetriedAfterFailure ==
    \E w \in Workers :
        /\ req[w].pc = "done"
        /\ req[w].outcome = "executed"
        /\ req[w].began >= 1
        /\ execs[1].rid = req[w].rid
        /\ ~ execs[1].ok

SameRequest(a, b) ==
    /\ a.rid = b.rid
    /\ a.endpoint = b.endpoint
    /\ a.method = b.method
    /\ CalculateRequestHash(a.params) = CalculateRequestHash(b.params)

\* C19: of two process_request calls that are in progress together with the
\* same request id and parameters, at most one runs the operation, and both
\* return the same response.
ConcurrentExecutedOnce ==
    \A w1 \in Workers : \A w2 \in Workers \ {w1} :
        (/\ req[w1].pc = "done"
         /\ req[w2].pc = "done"
         /\ SameRequest(req[w1], req[w2])
         /\ req[w1].outcome \in {"executed", "cached"}
         /\ req[w2].outcome \in {"executed", "cached"})
           => /\ ~ (req[w1].outcome = "executed" /\ req[w2].outcome = "executed")
              /\ SerializeForStorage(req[w1].response) = SerializeForStorage(req[w2].response)

\* what the steps of process_request leave of the records they found
RecordsKept == \A rid \in DOMAIN idem : rid \in DOMAIN idem' /\ idem'[rid] = idem[rid]

----------------------------------------------------------------------------
\* Properties of process_request, continued

\* C21: a process_request call without a request id runs under an
\* identifier that no record has, executes the operation once, and, when
\* the operation returns, stores its serialized outcome with status 200
\* under that identifier and returns the identifier; when the operation
\* raises, nothing is stored.
GeneratedIdFresh ==
    [][(ProcessStep /\ ret'.rid = NULL) =>
          /\ ret'.actual # NULL
          /\ ret'.actual \notin DOMAIN idem
          /\ execs' = Append(execs, execs'[Len(execs')])
          /\ execs'[Len(execs')].rid = ret'.actual
          /\ ret'.outcome \in {"executed", "raised"}
          /\ ret'.outcome = "raised" => idem' = idem
          /\ ret'.outcome = "executed" =>
                /\ execs'[Len(execs')].ok
                /\ ret'.status = 200
                /\ DOMAIN idem' = DOMAIN idem \cup {ret'.actual}
                /\ \A r \in DOMAIN idem : idem'[r] = idem[r]
                /\ idem'[ret'.actual] =
                      IdempotencyRecord(ret'.endpoint, ret'.method, ret'.params,
                                        SerializeForStorage(ret'.response), 200)]_vars

\* a call without request id was executed while a record of a client's id
\* was stored, and its outcome is stored under the generated id
GeneratedIdStored ==
    /\ ret.rid = NULL
    /\ ret.outcome = "executed"
    /\ ret.actual \in DOMAIN idem
    /\ \E r \in RequestIds : r \in DOMAIN idem

\* the exception a process_request call leaves with: the HTTPException(409)
\* it makes of a ParameterMismatchError, or the processor's ValueError
ExceptionOf(call) ==
    IF call.outcome = "ParameterMismatch" THEN "HTTPException"
    ELSE IF call.outcome = "raised" THEN "ValueError"
    ELSE "none"

\* the status the handlers create_prefix and allocate_subnet answer with:
\* 200 for a returned response; create_prefix turns a ValueError and, in
\* its except Exception clause, everything else into 400; allocate_subnet
\* turns a ValueError into 400 and everything else into 500
BoundaryStatus(call) ==
    IF ExceptionOf(call) = "none" THEN 200
    ELSE IF call.endpoint = "/api/prefixes" THEN 400
    ELSE IF ExceptionOf(call) = "ValueError" THEN 400
    ELSE 500

\* C22: a POST to create-prefix or allocate-subnet that reuses a request id
\* with a body other than the stored one is answered with status 409.
MismatchAnswered409 ==
    (/\ ret.outcome = "ParameterMismatch"
     /\ ret.method = "POST"
     /\ ret.endpoint \in Endpoints
     /\ ret.actual \in DOMAIN idem
     /\ idem[ret.actual].endpoint = ret.endpoint
     /\ idem[ret.actual].method = ret.method)
       => BoundaryStatus(ret) = 409

----------------------------------------------------------------------------
\* Properties of the store handlers, continued

\* C23: create_manual_prefix with a parent whose network does not strictly
\* contain the new CIDR, or whose VRF or IP family differs, is rejected and
\* adds nothing: every row a create_manual_prefix adds under a parent lies
\* strictly inside that parent, in its VRF and its family.
ParentMismatchRejected ==
    [][lastOp'.op = "create_manual_prefix" =>
          \A r \in prefixes' \ prefixes :
              r.parent # NoId =>
                  \E q \in prefixes : /\ q.id = r.parent
                                      /\ StrictlyInside(r.cidr, q.cidr)
                                      /\ Ver(r.cidr) = Ver(q.cidr)
                                      /\ r.vrf = q.vrf]_vars

DeleteStep == lastOp'.op = "delete_manual_prefix"

\* every parent_prefix_id of a prefix or an association names a stored row
NoDanglingParent ==
    /\ \A p \in prefixes : p.parent # NoId => ById(prefixes, p.parent) # {}
    /\ \A a \in assocs : ById(prefixes, a.parent) # {}

\* C24: delete_manual_prefix removes at most one row, and only a manual row
\* without children and without associations; a refused delete (source vpc,
\* a child, an association) leaves the store as it was, so no prefix and no
\* association refers to a deleted prefix.
DeleteGuarded ==
    /\ []NoDanglingParent
    /\ [][DeleteStep =>
            /\ assocs' = assocs
            /\ IF lastOp'.outcome = "ok"
               THEN \E old \in prefixes :
                       /\ prefixes' = prefixes \ {old}
                       /\ old.source = "manual"
                       /\ ~ \E p \in prefixes : p.parent = old.id
                       /\ ~ \E a \in assocs : a.parent = old.id
               ELSE prefixes' = prefixes]_vars

\* a delete was refused for the children of the prefix while a row of source
\* vpc and an association were stored
DeleteRefusedForChildren ==
    /\ lastOp.op = "delete_manual_prefix"
    /\ lastOp.outcome = "CannotDeleteWithChildren"
    /\ \E p \in prefixes : p.source = "vpc" /\ p.parent # NoId
    /\ assocs # {}

\* C25: update_manual_prefix changes no row of source vpc, and makes no
\* change after which a child that lay strictly inside the updated prefix,
\* in its VRF, no longer does; a refused update leaves the store as it was.
UpdateKeepsChildren ==
    [][lastOp'.op = "update_manual_prefix" =>
          /\ lastOp'.outcome # "ok" => prefixes' = prefixes
          /\ \A old \in prefixes \ prefixes' :
                /\ old.source = "manual"
                /\ \A new \in prefixes' \ prefixes :
                      new.id = old.id =>
                          \A ch \in prefixes :
                              (/\ ch.parent = old.id
                               /\ StrictlyInside(ch.cidr, old.cidr)
                               /\ ch.vrf = old.vrf)
                                 => StrictlyInside(ch.cidr, new.cidr) /\ ch.vrf = new.vrf]_vars

----------------------------------------------------------------------------
\* Manual prefixes with and without vpc_children_type_flag

\* GET /api/prefixes/{prefix_id}/can-create-child for a stored row
CanCreateChild(q) ==
    IF q.source = "vpc" THEN FALSE
    ELSE IF q.flag THEN FALSE
    ELSE TRUE

NextFlag ==
    \/ CreateVrf(PROD_VRF)
    \/ \E c \in AllocCidrs, par \in ConcParents, flag \in BOOLEAN :
         CreateManualPrefix(PROD_VRF, c, par, NoTags, TRUE, flag)
    \/ \E n \in InputSizes, par \in ConcParents, flag \in BOOLEAN :
         AllocateSubnet(PROD_VRF, n, NoTags, TRUE, par, flag)
    \/ \E p \in prefixes : DeleteManualPrefix(p.id)

SpecFlag == Init /\ [][NextFlag]_vars

\* C26: create_manual_prefix adds no child under a manual prefix whose
\* vpc_children_type_flag is true, a parent for which can-create-child
\* answers false.
NoChildUnderFlag ==
    [][lastOp'.op = "create_manual_prefix" =>
          \A r \in prefixes' \ prefixes :
              \A q \in ById(prefixes, r.parent) :
                  q.source = "manual" => CanCreateChild(q)]_vars

----------------------------------------------------------------------------
\* Properties of the associations, continued

TagIffAssociated ==
    \A p \in prefixes : HasTag(p.tags, "associated_vpc") <=> AssocsOf(assocs, p.id) # {}

\* C27: a prefix carries the tag associated_vpc exactly when an association
\* names it as parent; an accepted create_vpc_association sets the tag to the
\* VPC of the call, and removing the last association of a prefix removes
\* the tag.
AssociatedVpcTagKept ==
    /\ []TagIffAssociated
    /\ [][(AssocStep /\ lastOp'.outcome = "ok") =>
            \E p \in prefixes' : /\ p.id = lastOp'.parent
                                 /\ <<"associated_vpc", lastOp'.vpc>> \in p.tags]_vars

\* the last association of the root was removed, and with it the tag
LastAssociationRemoved ==
    /\ lastOp.op = "remove_vpc_association"
    /\ assocs = {}
    /\ \E p \in prefixes : p.id = RootId /\ ~ HasTag(p.tags, "associated_vpc")

----------------------------------------------------------------------------
\* The VRF and VPC registries: the handlers of one backend process run one
\* after the other; the reconciler is a process of its own and creates the
\* per-VPC VRFs inside SyncVpc

DEV_VRF == "dev-vrf"
VrfIds == {PROD_VRF, DEV_VRF, VpcVrfName("v1")}
SubnetCidr == <<4, 0, 1>>

NextVrf ==
    \/ \E v \in VrfIds, d \in BOOLEAN : CreateVrfRow(v, d)
    \/ \E v \in VrfIds, d \in {{}, {TRUE}, {FALSE}} : UpdateVrf(v, d)
    \/ \E v \in VrfIds : DeleteVrf(v)
    \/ \E vpc \in Vpcs : DeleteVpc(vpc)
    \/ \E v \in {PROD_VRF, DEV_VRF} :
         CreateManualPrefix(v, RootCidr, NoId, NoTags, FALSE, FALSE)
    \/ \E p \in prefixes : DeleteManualPrefix(p.id)
    \/ \E vpc \in Vpcs : CreateVpcAssociation(vpc, RootCidr, FALSE, RootId)
    \/ \E a \in assocs : RemoveVpcAssociation(a)
    \/ \E vpc \in Vpcs, cl \in SUBSET {SubnetCidr} : SyncVpc(vpc, "ok", cl)

SpecVrf == Init /\ [][NextVrf]_vars

ReferencesExist ==
    /\ \A p \in prefixes : p.vrf \in vrfs /\ (p.source = "vpc" => p.vpc \in vpcs)
    /\ \A a \in assocs : a.vpc \in vpcs

\* C29: delete_vrf is refused while a prefix has that vrf_id and delete_vpc
\* while a prefix or an association has that vpc_id; a refused deletion leaves
\* the store as it was, so every prefix names a stored VRF and every
\* association and every prefix of source vpc names a stored VPC.
DeletionRefusedWhileReferenced ==
    /\ []ReferencesExist
    /\ [][(lastOp'.op = "delete_vrf" /\ (\E p \in prefixes : p.vrf = lastOp'.vpc))
             => lastOp'.outcome # "ok"]_vars
    /\ [][(lastOp'.op = "delete_vpc" /\ (\/ \E p \in prefixes : p.vpc = lastOp'.vpc
                                         \/ \E a \in assocs : a.vpc = lastOp'.vpc))
             => lastOp'.outcome # "ok"]_vars
    /\ [][(lastOp'.op \in {"delete_vrf", "delete_vpc"} /\ lastOp'.outcome # "ok")
             => UNCHANGED <<vrfs, isDefault, vpcs, prefixes, assocs>>]_vars

\* delete_vpc was refused for a VPC that an association and a subnet prefix
\* name, after the other VPC was deleted
VpcDeletionRefused ==
    /\ lastOp.op = "delete_vpc"
    /\ lastOp.outcome = "InUse"
    /\ vpcs = {lastOp.vpc}
    /\ \E a \in assocs : a.vpc = lastOp.vpc
    /\ \E p \in prefixes : p.source = "vpc" /\ p.vpc = lastOp.vpc /\ p.vrf # PROD_VRF

----------------------------------------------------------------------------
\* The request id at the HTTP boundary

HeaderIds == RequestIds \cup {"h1"}

\* what lastOp keeps of a POST /api/prefixes: the X-Request-ID header and the
\* request_id of the body as sent (NULL: absent), and the X-Request-ID header
\* of the response
HttpOp(header, body, echoed) ==
    [op |-> "create_prefix", outcome |-> "-", vpc |-> NULL, cloud |-> {},
     header |-> header, body |-> body, echoed |-> echoed]

\* RequestIDMiddleware.dispatch around create_prefix: request.state.request_id
\* is the header or a fresh uuid4, the handler passes the body's request_id
\* or else request.state.request_id to process_request, and the middleware
\* sets the response header to request.state.request_id
HttpCreatePrefix(header, body, params) ==
    \E state_request_id \in (IF header = NULL THEN GenerateRequestId(idem) ELSE {header}) :
        ProcessRequestAs(IF body # NULL THEN body ELSE state_request_id,
                         "/api/prefixes", "POST", params,
                         HttpOp(header, body, state_request_id))

NextHttp ==
    \E header \in HeaderIds \cup {NULL}, body \in RequestIds \cup {NULL},
       params \in InputParams :
        HttpCreatePrefix(header, body, params)

SpecHttp == Init /\ [][NextHttp]_vars

\* C30: the response to a request that carries a request id, in the header or
\* in the body, echoes that id, and the echoed id is the one process_request
\* checked and stored the outcome under.
EchoedIdIsStoredId ==
    [][(lastOp'.op = "create_prefix" /\ (lastOp'.header # NULL \/ lastOp'.body # NULL)) =>
          /\ lastOp'.echoed \in {lastOp'.header, lastOp'.body} \ {NULL}
          /\ lastOp'.echoed = ret'.actual
          /\ ret'.outcome = "executed" => lastOp'.echoed \in DOMAIN idem']_vars

----------------------------------------------------------------------------
\* Properties of the identifier scheme

\* the prefix_id the scheme derives from the current key of row p
DerivedId(p) ==
    IF p.source = "vpc" THEN SubnetId(p.vpc, p.cidr)
    ELSE IF p.id.kind = "public-ip" THEN PublicIpId(p.cidr)
    ELSE ManualId(p.vrf, p.cidr)

\* C31: every stored prefix has the prefix_id that the identifier scheme
\* derives from its current key (manual: vrf_id and cidr, VPC subnet: vpc_id
\* and cidr, standalone public IP: cidr), also after updates.
IdMatchesKey == \A p \in prefixes : p.id = DerivedId(p)

----------------------------------------------------------------------------
\* Properties of the allocator, continued

\* parent p comes before parent q: the longer prefix first, then the lower
\* network address
ParentBefore(p, q) ==
    \/ PrefixLen(p.cidr) > PrefixLen(q.cidr)
    \/ PrefixLen(p.cidr) = PrefixLen(q.cidr) /\ NetAddr(p.cidr) < NetAddr(q.cidr)

\* the matching parents in which allocate_subnet would not go on to the next
HasFreeSlot(P, V, q, size) ==
    TryParent(P, V, q, PROD_VRF, size, NoTags, TRUE, FALSE).outcome # "continue"

\* C32: in every store state, an allocate_subnet without parent_prefix_id
\* that succeeds records the first parent with a free slot in the order
\* "longer prefix first, then lower network address", whatever order the
\* store returns the matching parents in.
ParentsTriedMostSpecificFirst ==
    \A n \in InputSizes :
        \A res \in AllocationResults(prefixes, vrfs, PROD_VRF, n, NoTags, TRUE, NoId, FALSE) :
            res.outcome = "ok" =>
                \A q \in FindMatchingParentPrefixes(prefixes, PROD_VRF, NoTags, NoId) :
                    (HasFreeSlot(prefixes, vrfs, q, n) /\ q.id # res.result.parent_prefix_id)
                        => \E p \in prefixes : /\ p.id = res.result.parent_prefix_id
                                               /\ ParentBefore(p, q)

----------------------------------------------------------------------------
\* The allocator with parents of several VRFs, tags and routable flags

ProdTag == {<<"env", "prod">>}
TeamTags == ProdTag \cup {<<"team", "a">>}
ParentTagSets == {NoTags, {<<"env", "dev">>}, TeamTags}
RequestTagSets == {NoTags, ProdTag}
MatchCidrs == {<<4, 0, 1>>, <<4, 2, 1>>}
MatchSizes == {0, 2}

NextMatch ==
    \/ \E v \in {PROD_VRF, DEV_VRF} : CreateVrf(v)
    \/ \E c \in MatchCidrs, tags \in ParentTagSets :
         CreateManualPrefix(PROD_VRF, c, NoId, tags, TRUE, FALSE)
    \/ \E c \in MatchCidrs : CreateManualPrefix(PROD_VRF, c, NoId, TeamTags, FALSE, FALSE)
    \/ CreateManualPrefix(DEV_VRF, <<4, 0, 1>>, NoId, ProdTag, TRUE, FALSE)
    \/ \E cl \in SUBSET {<<4, 2, 2>>} : SyncVpc("v1", "ok", cl)
    \/ \E n \in MatchSizes, tags \in RequestTagSets, rt \in BOOLEAN,
          par \in {NoId} \cup { p.id : p \in prefixes } :
         AllocateSubnetRequest(PROD_VRF, n, tags, rt, par)
    \/ \E par \in {NoId} \cup { p.id : p \in prefixes } :
         AllocateSubnetRequest(DEV_VRF, 2, ProdTag, TRUE, par)

SpecMatch == Init /\ [][NextMatch]_vars

AllocRequestStep == lastOp'.op = "allocate_subnet"

\* row q qualifies as the parent of the allocation that lastOp' describes
Qualifies(q) ==
    /\ q.source = "manual"
    /\ q.vrf = lastOp'.vrf_id
    /\ \A t \in lastOp'.tags : t \in q.tags
    /\ lastOp'.routable => q.routable
    /\ lastOp'.parent_prefix_id # NoId => q.id = lastOp'.parent_prefix_id

\* C33: a successful allocate_subnet adds one prefix, and its parent is a
\* manual prefix of the requested VRF that has every requested tag with the
\* same value, is routable when routable was requested, and is the given
\* parent when one was given; an allocate_subnet that fails adds no prefix.
ParentQualifies ==
    [][AllocRequestStep =>
          IF lastOp'.outcome = "ok"
          THEN \E r \in prefixes' \ prefixes :
                  /\ prefixes' = prefixes \cup {r}
                  /\ r.parent = lastOp'.result.parent_prefix_id
                  /\ \E q \in prefixes : q.id = r.parent /\ Qualifies(q)
          ELSE prefixes' = prefixes]_vars

\* an allocation picked the tagged routable parent although an untagged and a
\* non-routable manual prefix and a VPC subnet were stored in the VRF
AllocatedFromTaggedParent ==
    /\ lastOp.op = "allocate_subnet"
    /\ lastOp.outcome = "ok"
    /\ lastOp.tags = ProdTag
    /\ lastOp.routable
    /\ lastOp.parent_prefix_id = NoId
    /\ \E q \in prefixes : /\ q.id = lastOp.result.parent_prefix_id
                           /\ q.tags = TeamTags
    /\ \E q \in prefixes : q.vrf = lastOp.vrf_id /\ q.source = "manual" /\ q.tags = NoTags

\* C34: an allocate_subnet whose given parent qualifies but has a prefix
\* longer than the requested length ends with an outcome of its own, neither
\* a success nor NoSpaceAvailable, and adds no prefix.
ShorterMaskIsInvalidRequest ==
    [][(/\ AllocRequestStep
        /\ \E q \in prefixes : /\ q.id = lastOp'.parent_prefix_id
                               /\ Qualifies(q)
                               /\ lastOp'.size < PrefixLen(q.cidr))
          => /\ lastOp'.outcome \notin {"ok", "NoSpaceAvailable"}
             /\ prefixes' = prefixes]_vars

----------------------------------------------------------------------------
\* Properties of the reconciler, continued

\* C35: when the cloud reports a subnet of a VPC without association whose
\* key (prod-vrf, cidr) a prefix with another prefix_id already has, so that
\* the reconciler's insert meets the unique key, the sync treats that prefix
\* as the existing one and puts the data of the update path on it.
ConflictTreatedAsUpdate ==
    [][(SyncStep /\ lastOp'.outcome = "ok") =>
          \A c \in lastOp'.cloud :
              \A p \in prefixes :
                  (/\ p.vrf = PROD_VRF
                   /\ p.cidr = c
                   /\ p.id # SubnetId(lastOp'.vpc, c)
                   /\ \A a \in assocs : a.vpc # lastOp'.vpc)
                    => \E r \in prefixes' : r.id = p.id /\ HasTag(r.tags, "last_sync")]_vars

----------------------------------------------------------------------------
\* The reconciler placing the subnets of a VPC whose association may name a
\* parent of any VRF and any CIDR

PlaceVrfs == {PROD_VRF, DEV_VRF}
PlaceCidrs == {RootCidr, <<4, 0, 1>>}
PlaceCloud == {<<4, 0, 1>>, <<4, 2, 1>>}

NextPlace ==
    \/ \E v \in PlaceVrfs : CreateVrf(v)
    \/ \E v \in PlaceVrfs, c \in PlaceCidrs : CreateManualPrefix(v, c, NoId, NoTags, TRUE, FALSE)
    \/ \E rt \in BOOLEAN, p \in prefixes : CreateVpcAssociation("v1", p.cidr, rt, p.id)
    \/ \E a \in assocs : RemoveVpcAssociation(a)
    \/ \E cl \in SUBSET PlaceCloud : SyncVpc("v1", "ok", cl)

SpecPlace == Init /\ [][NextPlace]_vars

\* the CIDRs of lastOp'.cloud that this cycle found no stored prefix for
NewlyDiscovered == lastOp'.cloud \ { p.cidr : p \in ExistingPrefixes(prefixes, lastOp'.vpc) }

\* C36: a newly discovered subnet strictly inside the CIDR of the one
\* association of its VPC, whose parent is a manual prefix with that CIDR,
\* is created under a routable association as a routable prefix in the VRF
\* of that manual prefix with it as parent, and under a non-routable
\* association as a non-routable prefix in the VRF of the VPC, which exists
\* afterwards.
SubnetPlacedByAssociation ==
    [][(SyncStep /\ lastOp'.outcome = "ok") =>
          \A c \in NewlyDiscovered : \A a \in assocs : \A q \in prefixes :
              (/\ a.vpc = lastOp'.vpc
               /\ \A b \in assocs : b.vpc = a.vpc => b = a
               /\ StrictlyInside(c, a.cidr)
               /\ q.id = a.parent /\ q.source = "manual" /\ q.cidr = a.cidr)
                => \E r \in prefixes' \ prefixes :
                      /\ r.cidr = c /\ r.vpc = a.vpc /\ r.source = "vpc"
                      /\ IF a.routable
                         THEN r.routable /\ r.vrf = q.vrf /\ r.parent = q.id
                         ELSE /\ ~ r.routable
                              /\ r.vrf = VpcVrfName(a.vpc)
                              /\ r.vrf \in vrfs']_vars

\* C37: a subnet created by a sync cycle has a parent only if it lies strictly
\* inside the CIDR of an association of its VPC, and a newly discovered subnet
\* that lies strictly inside none (outside, or equal) is stored all the same,
\* as a prefix of source vpc without parent, when prod-vrf exists and has no
\* prefix with that CIDR.
ParentOnlyIfStrictlyInside ==
    [][(SyncStep /\ lastOp'.outcome = "ok") =>
          /\ \A r \in prefixes' \ prefixes :
                r.parent # NoId =>
                    \E a \in assocs : a.vpc = lastOp'.vpc /\ StrictlyInside(r.cidr, a.cidr)
          /\ \A c \in NewlyDiscovered :
                (/\ \A a \in assocs : a.vpc = lastOp'.vpc => ~ StrictlyInside(c, a.cidr)
                 /\ PROD_VRF \in vrfs
                 /\ ~ \E p \in prefixes : p.vrf = PROD_VRF /\ p.cidr = c)
                  => \E r \in prefixes' \ prefixes :
                        r.cidr = c /\ r.source = "vpc" /\ r.parent = NoId]_vars

\* C38: after a sync cycle of a reachable VPC, with prod-vrf stored, every
\* CIDR the cloud reported has a prefix of source vpc of that VPC without
\* deletion marker.
ReportedSubnetsStored ==
    [][(SyncStep /\ lastOp'.outcome = "ok" /\ PROD_VRF \in vrfs) =>
          \A c \in lastOp'.cloud :
              \E r \in prefixes' : /\ r.vpc = lastOp'.vpc
                                   /\ r.source = "vpc"
                                   /\ r.cidr = c
                                   /\ ~ HasTag(r.tags, "deleted_from_aws")]_vars

----------------------------------------------------------------------------
\* The sync cycle over the registry, next to the handlers of the backend

CycleStatus == CloudStatus \cup {"db_error"}

CycleSteps ==
    \E vpc \in Vpcs, st \in CycleStatus, cl \in SUBSET {<<4, 0, 1>>} : CycleStep(vpc, st, cl)

NextCycle ==
    \/ CreateVrf(PROD_VRF)
    \/ CreateManualPrefix(PROD_VRF, RootCidr, NoId, NoTags, TRUE, FALSE)
    \/ \E rt \in BOOLEAN : CreateVpcAssociation("v1", RootCidr, rt, RootId)
    \/ \E vpc \in Vpcs : DeleteVpc(vpc)
    \/ BeginCycle
    \/ CycleSteps
    \/ EndCycle

\* the reconciler is a process of its own that runs its loop to the end
SpecCycle ==
    Init /\ [][NextCycle]_vars /\ WF_vars(CycleSteps) /\ WF_vars(EndCycle)

\* C39: a sync cycle that has begun comes to its end, and at its end every
\* VPC of the registry it loaded has been attempted, whatever VPC was
\* unreachable or failed on the way.
EveryVpcAttempted ==
    /\ [](cycle.pc = "done" => cycle.attempted = cycle.registry)
    /\ (cycle.pc = "running") ~> (cycle.pc = "done")

\* a cycle ended in which one VPC was unreachable or failed and the other
\* one was synced and got its subnet stored
CycleEndedAfterUnreachable ==
    /\ cycle.pc = "done"
    /\ cycle.registry = Vpcs
    /\ cycle.synced = {"v2"}
    /\ lastOp.op = "sync_cycle_completed"
    /\ \E p \in prefixes : p.source = "vpc" /\ p.vpc = "v2"

\* ---------------------------------------------------------------------
\* The parameter hash, computed as _calculate_request_hash computes it.
\* A parameter map is a Python dict: a sequence of <<key, value>> pairs in
\* insertion order with no key twice.  A value is a string, a boolean or a
\* dict of such values.
JStr(v) == [t |-> "str", s |-> v, d |-> <<>>]
JBool(v) == [t |-> "bool", s |-> v, d |-> <<>>]
JDict(items) == [t |-> "dict", s |-> "", d |-> items]

\* every insertion order of the items of S
Orderings(S) ==
    { q \in [1..Cardinality(S) -> S] : \A i, j \in DOMAIN q : q[i] = q[j] => i = j }

\* one value per key
OneValuePerKey(S) == \A a, b \in S : a[1] = b[1] => a = b

\* the tags of a request: a str and a boolean that read alike
HashTags ==
    {<<"env", JStr("true")>>, <<"env", JBool("true")>>, <<"team", JStr("true")>>}
TagDicts ==
    UNION { Orderings(S) : S \in { T \in SUBSET HashTags : OneValuePerKey(T) } }

HashEntries ==
    ({"cidr"} \X {JStr("a"), JStr("b")})
        \cup ({"tags"} \X { JDict(d) : d \in TagDicts })
        \cup ({"request_id"} \X {JStr("r1")})

\* the parameter maps handed to the hash: a cidr, its tags, and with or
\* without a request_id, in every order of the keys
HashParams ==
    UNION { Orderings(S) : S \in { T \in SUBSET HashEntries :
                                      /\ OneValuePerKey(T)
                                      /\ \E e \in T : e[1] = "cidr"
                                      /\ \E e \in T : e[1] = "tags" } }

\* clean_params = {k: v for k, v in params.items() if k != 'request_id'}
CleanParams(params) == SelectSeq(params, LAMBDA kv : kv[1] # "request_id")

\* the order of str keys
KeyOrder == <<"cidr", "env", "request_id", "tags", "team">>
KeyRank(k) == CHOOSE i \in DOMAIN KeyOrder : KeyOrder[i] = k

SortKeysKeepOrder(items) == items

\* sort_keys=True: the items of a dict in the order of their keys
SortKeys(items) ==
    IF items = <<>> THEN <<>>
    ELSE CHOOSE q \in Orderings({ items[i] : i \in DOMAIN items }) :
            \A i, j \in DOMAIN q : i < j => KeyRank(q[i][1]) < KeyRank(q[j][1])

\* json.dumps(x, sort_keys=True, default=str) as the sequence of the tokens
\* of its text: a str is quoted, true and null are literals, the items of a
\* dict follow in the order of their keys at every level, and a value JSON
\* has no form for is written as the string str() makes of it
RECURSIVE JsonDumps(_)
JsonDumps(x) ==
    IF x.t = "dict"
    THEN LET sorted == SortKeys(x.d)
             RECURSIVE Items(_)
             Items(i) == IF i > Len(sorted) THEN <<>>
                         ELSE << <<"key", sorted[i][1]>> >>
                                  \o JsonDumps(sorted[i][2]) \o Items(i + 1)
         IN  << <<"punct", "{">> >> \o Items(1) \o << <<"punct", "}">> >>
    ELSE IF x.t = "str" THEN << <<"string", x.s>> >>
    ELSE IF x.t \in {"bool", "null"} THEN << <<"literal", x.s>> >>
    ELSE << <<"string", x.s>> >>

\* hashlib.sha256(sorted_params.encode()).hexdigest(): the digest stands
\* for the text it was made of
RequestHash(params) == JsonDumps(JDict(CleanParams(params)))

HashOp(name, outcome, params) ==
    [op |-> name, outcome |-> outcome, vpc |-> NULL, cloud |-> {},
     params |-> params, request_hash |-> RequestHash(params)]

\* store_response keeps the hash of the parameters of the first request
StoreRequestHash(params) ==
    /\ lastOp.op = "init"
    /\ ret' = [params |-> params, request_hash |-> RequestHash(params)]
    /\ lastOp' = HashOp("store_request_hash", "ok", params)
    /\ UNCHANGED <<vrfs, isDefault, vpcs, cycle, prefixes, assocs, idem, execs, req>>

\* check_request_status compares the hash of the parameters of a later
\* request with the stored one
CheckRequestHash(params) ==
    /\ lastOp.op = "store_request_hash"
    /\ lastOp' = HashOp("check_request_hash",
                        IF ret.request_hash # RequestHash(params)
                        THEN "ParameterMismatch" ELSE "match", params)
    /\ UNCHANGED <<vrfs, isDefault, vpcs, cycle, prefixes, assocs, idem, execs, req, ret>>

NextHash ==
    \/ \E params \in HashParams : StoreRequestHash(params)
    \/ \E params \in HashParams : CheckRequestHash(params)

SpecHash == Init /\ [][NextHash]_vars

\* a dict as the map it is: the set of its items, whatever their order
RECURSIVE AsMap(_)
AsMap(x) ==
    [t |-> x.t, s |-> x.s,
     d |-> { <<x.d[i][1], AsMap(x.d[i][2])>> : i \in DOMAIN x.d }]

WithoutRequestId(params) ==
    { kv \in AsMap(JDict(params)).d : kv[1] # "request_id" }

\* C40: the hash of a parameter map depends on nothing but the map with
\* request_id removed: the hash of a later request equals the stored one
\* if and only if the two maps, request_id removed, have the same keys with
\* the same values, whatever the order of the keys at any nesting level.
SameHashIffSameMap ==
    lastOp.op = "check_request_hash" =>
        ((lastOp.request_hash = ret.request_hash)
            <=> (WithoutRequestId(lastOp.params) = WithoutRequestId(ret.params)))

\* a later request with its keys in another order at both levels and with
\* another request_id got the stored hash
ReorderedParamsSameHash ==
    /\ lastOp.op = "check_request_hash"
    /\ lastOp.outcome = "match"
    /\ lastOp.request_hash = ret.request_hash
    /\ Len(ret.params) = 3 /\ Len(lastOp.params) = 2
    /\ ret.params[1][1] = "cidr" /\ lastOp.params[1][1] = "tags"
    /\ \E i \in DOMAIN ret.params :
          /\ ret.params[i][1] = "tags"
          /\ Len(ret.params[i][2].d) = 2
          /\ ret.params[i][2].d # lastOp.params[1][2].d
====
